---- MODULE Spec2Model ----
(***************************************************************************)
(* A model of the cacheables library: the cache-enablement controller      *)
(* (controllers.py), the memoizing wrapper CacheableFunction (core.py)     *)
(* and the disk cache backend with its per-entry file lock (caches/base.py *)
(* and caches/disk.py).                                                    *)
(*                                                                         *)
(* Python's True / False / None are the strings "True", "False", "None".   *)
(***************************************************************************)
EXTENDS Integers, Sequences, FiniteSets, TLC

VARIABLES
    env_enabled,    \* os.environ CACHEABLES_ENABLED lower-cases to "true"
    env_disabled,   \* os.environ CACHEABLES_DISABLED lower-cases to "true"
    glob,           \* GlobalCacheController._instance: [read, write]
    glob_scopes,    \* context managers GlobalCacheController.enable returned, not yet exited
    ctl,            \* CacheableFunction._controller: [read, write, filter]
    ctl_scopes,     \* context managers CacheController.enable returned, not yet exited
    disk,           \* the cache directory: InputKey -> entry directory
    last,           \* what the caller observed of the last operation on the function
    job,            \* per process: the backend call it is running and its position
    lock,           \* lock file path -> the processes holding its FileLock
    hashes          \* the lru_cache of keys._hash_argument: cache key -> digest

vars == <<env_enabled, env_disabled, glob, glob_scopes, ctl, ctl_scopes, disk, last,
          job, lock, hashes>>

ctl_vars == <<env_enabled, env_disabled, glob, glob_scopes, ctl, ctl_scopes>>

-----------------------------------------------------------------------------
(* Bounds and input sets *)

\* outstanding scopes (global and per-function together) in the call model
MaxScopes == 1
\* nested per-function scopes in the controller model
MaxNest == 2
\* nested global scopes in the controller model
MaxGlobalNest == 1
\* processes (or threads, or coroutines) using the disk cache at the same time
NumProcs == 2

TriState == {"True", "False", "None"}
Bools == {"True", "False"}
\* result filters a caller passes to enable_cache: none (its default), one
\* that rejects every output, one that raises; "accept" is the default filter
\* of CacheController.enable (lambda output: True), which disable() installs
Filters == {"None", "reject", "raise"}

FunctionIds == {"foo"}
\* foo(a, _p): _p is excluded from the key by the default exclusion predicate
ParamNames == {"a", "_p"}
ArgVals == {1, 2}
PrivVals == {0, 1}
AllArgs == {("a" :> x) @@ ("_p" :> y) : x \in ArgVals, y \in PrivVals}

\* where one call can be made to fail
Faults == {"none", "key", "exists", "load_metadata", "read_output",
           "deserialize", "serialize", "write_output", "dump_metadata"}

-----------------------------------------------------------------------------
(* controllers.py *)

\* mutant of env_var_enabled: with both variables set, enabled wins
env_var_enabled_EnabledWins(enabled, disabled) ==
    IF enabled /\ disabled THEN [value |-> "True", warned |-> TRUE]
    ELSE IF disabled THEN [value |-> "False", warned |-> FALSE]
    ELSE IF enabled THEN [value |-> "True", warned |-> FALSE]
    ELSE [value |-> "None", warned |-> FALSE]

\* GlobalCacheController._env_var_enabled: the value and whether it warned
env_var_enabled(enabled, disabled) ==
    IF enabled /\ disabled THEN [value |-> "False", warned |-> TRUE]
    ELSE IF disabled THEN [value |-> "False", warned |-> FALSE]
    ELSE IF enabled THEN [value |-> "True", warned |-> FALSE]
    ELSE [value |-> "None", warned |-> FALSE]

\* GlobalCacheController.is_read_enabled
Global_is_read_enabled(g, enabled, disabled) ==
    LET e == env_var_enabled(enabled, disabled).value IN
    IF g.read = "False" \/ e = "False" THEN "False"
    ELSE IF g.read = "True" \/ e = "True" THEN "True"
    ELSE "None"

\* GlobalCacheController.is_write_enabled
Global_is_write_enabled(g, enabled, disabled) ==
    LET e == env_var_enabled(enabled, disabled).value IN
    IF g.write = "False" \/ e = "False" THEN "False"
    ELSE IF g.write = "True" \/ e = "True" THEN "True"
    ELSE "None"

\* mutant of is_read_enabled: the True test comes before the False test
is_read_enabled_TrueFirst(c, g, enabled, disabled) ==
    IF c.read = "True" \/ Global_is_read_enabled(g, enabled, disabled) = "True"
    THEN "True"
    ELSE IF c.read = "False" \/ Global_is_read_enabled(g, enabled, disabled) = "False"
    THEN "False"
    ELSE "None"

\* CacheController.is_read_enabled
is_read_enabled(c, g, enabled, disabled) ==
    IF c.read = "False" \/ Global_is_read_enabled(g, enabled, disabled) = "False"
    THEN "False"
    ELSE IF c.read = "True" \/ Global_is_read_enabled(g, enabled, disabled) = "True"
    THEN "True"
    ELSE "None"

\* CacheController.is_write_enabled
is_write_enabled(c, g, enabled, disabled) ==
    IF c.write = "False" \/ Global_is_write_enabled(g, enabled, disabled) = "False"
    THEN "False"
    ELSE IF c.write = "True" \/ Global_is_write_enabled(g, enabled, disabled) = "True"
    THEN "True"
    ELSE "None"

\* mutant of is_passing_filter: a rejected value counts as passing
is_passing_filter_RejectPasses(c, output) ==
    IF c.filter = "raise" THEN "raise" ELSE "pass"

\* CacheController.is_passing_filter: "pass", "reject", or "raise" when the
\* filter callable itself raises
is_passing_filter(c, output) ==
    IF c.filter = "None" THEN "pass"
    ELSE IF c.filter = "accept" THEN "pass"
    ELSE IF c.filter = "reject" THEN "reject"
    ELSE "raise"

\* mutant of enable_state: the new flags are and-ed with the previous ones
\* when those are set (most restrictive wins)
enable_state_Merge(c, read, write, filter) ==
    [read |-> IF c.read = "False" THEN "False" ELSE read,
     write |-> IF c.write = "False" THEN "False" ELSE write,
     filter |-> filter]

\* the state CacheController.enable installs
enable_state(c, read, write, filter) ==
    [read |-> read, write |-> write, filter |-> filter]

\* the state GlobalCacheController.enable installs
Global_enable_state(g, read, write) ==
    [read |-> read, write |-> write]

\* The resolved flags in the current state
ReadNow == is_read_enabled(ctl, glob, env_enabled, env_disabled)
WriteNow == is_write_enabled(ctl, glob, env_enabled, env_disabled)

\* CacheController.enable(read, write, filter): installs the new state at
\* once and returns a context manager that remembers the previous one.  The
\* arguments are kept in the scope object so that properties can name them.
CtlEnable(read, write, filter) ==
    /\ ctl' = enable_state(ctl, read, write, filter)
    /\ ctl_scopes' = Append(ctl_scopes,
                            [previous |-> ctl,
                             read |-> read, write |-> write, filter |-> filter])
    /\ UNCHANGED <<env_enabled, env_disabled, glob, glob_scopes, disk, last, job, lock, hashes>>

\* CacheController.disable() == enable(read=False, write=False), with the
\* default filter of enable
CtlDisable ==
    CtlEnable("False", "False", "accept")

\* mutant of restore_state: the filter is left as the scope set it
restore_state_KeepFilter(c, scope) ==
    [read |-> scope.previous.read, write |-> scope.previous.write,
     filter |-> c.filter]

\* the finally block of CacheController.enable's context manager: the three
\* saved values are assigned back
restore_state(c, scope) ==
    [read |-> scope.previous.read, write |-> scope.previous.write,
     filter |-> scope.previous.filter]

\* the finally block of the innermost context manager: restore what it
\* saved, whether the body returned or an exception propagates out of it
CtlExit ==
    /\ ctl_scopes # <<>>
    /\ ctl' = restore_state(ctl, ctl_scopes[Len(ctl_scopes)])
    /\ ctl_scopes' = SubSeq(ctl_scopes, 1, Len(ctl_scopes) - 1)
    /\ UNCHANGED <<env_enabled, env_disabled, glob, glob_scopes, disk, last, job, lock, hashes>>

\* GlobalCacheController.enable(read, write) (enable_all_caches)
GlobalEnable(read, write) ==
    /\ glob' = Global_enable_state(glob, read, write)
    /\ glob_scopes' = Append(glob_scopes,
                             [previous |-> glob, read |-> read, write |-> write])
    /\ UNCHANGED <<env_enabled, env_disabled, ctl, ctl_scopes, disk, last, job, lock, hashes>>

\* GlobalCacheController.disable() (disable_all_caches)
GlobalDisable ==
    GlobalEnable("False", "False")

\* the finally block of GlobalCacheController.enable's context manager
Global_restore_state(g, scope) ==
    [read |-> scope.previous.read, write |-> scope.previous.write]

\* the finally block of the innermost global context manager
GlobalExit ==
    /\ glob_scopes # <<>>
    /\ glob' = Global_restore_state(glob, glob_scopes[Len(glob_scopes)])
    /\ glob_scopes' = SubSeq(glob_scopes, 1, Len(glob_scopes) - 1)
    /\ UNCHANGED <<env_enabled, env_disabled, ctl, ctl_scopes, disk, last, job, lock, hashes>>

\* the process environment changes (the tests patch os.environ)
SetEnv(enabled, disabled) ==
    /\ <<enabled, disabled>> # <<env_enabled, env_disabled>>
    /\ env_enabled' = enabled
    /\ env_disabled' = disabled
    /\ UNCHANGED <<glob, glob_scopes, ctl, ctl_scopes, disk, last, job, lock, hashes>>

-----------------------------------------------------------------------------
(* core.py: keys, serializer, wrapped function *)

\* the wrapped function: deterministic, and a function of its non-excluded
\* argument only
Fn(args) == 10 * args["a"]

\* CacheableFunction._exclude_args_fn, by default arg.startswith("_")
exclude_args_fn(name) == name = "_p"

\* CacheableFunction._hash_argument: md5 of the pickled value (injective here)
hash_argument(value) == value + 1000

\* CacheableFunction.get_input_id: the digest of the (name, hash) pairs of the
\* non-excluded bound arguments, sorted by name; the digest is taken to be
\* collision free, so it is the set of pairs itself
get_input_id(args) ==
    {<<n, hash_argument(args[n])>> : n \in {m \in DOMAIN args : ~exclude_args_fn(m)}}

InputIds == {get_input_id(args) : args \in AllArgs}
InputKeys == [function_id : FunctionIds, input_id : InputIds]

\* CacheableFunction._get_input_key_from_args
get_input_key_from_args(args) ==
    [function_id |-> "foo", input_id |-> get_input_id(args)]

\* BaseSerializer.serialize / deserialize: values are encoded as odd numbers;
\* deserialize fails (ok = FALSE) on bytes that no serialize produced
serialize(value) == 2 * value + 1
deserialize(bytes) ==
    IF bytes % 2 = 1 THEN [ok |-> TRUE, value |-> (bytes - 1) \div 2]
    ELSE [ok |-> FALSE, value |-> 0]

\* CacheableFunction._get_output_id_from_bytes: md5 of the bytes (injective here)
get_output_id_from_bytes(bytes) == bytes + 100

\* metadata.create_metadata; last_accessed is absent until update_last_accessed
create_metadata(input_id, output_id) ==
    [input_id |-> input_id, output_id |-> output_id, last_accessed |-> FALSE]

-----------------------------------------------------------------------------
(* caches/disk.py: one entry directory <base>/functions/<f>/inputs/<input_id> *)
(*   dir   the directory exists                                             *)
(*   meta  <<>> when metadata.json is absent, <<m>> when it holds m          *)
(*   outs  the output files: output_id -> bytes                              *)

NoOuts == [o \in {} |-> 0]
NoEntry == [dir |-> FALSE, meta |-> <<>>, outs |-> NoOuts]

\* DiskCache.exists: metadata.json exists and is a file
exists(entry) == entry.meta # <<>>

\* AsyncDiskCache.exists: the entry directory exists and is a directory.  The
\* other methods of AsyncDiskCache do to the directory what those of
\* DiskCache do, so one entry stands for the directory under either backend
async_exists(entry) == entry.dir

\* DiskCache.evict run alone: shutil.rmtree(input_path, ignore_errors=True)
evict(entry) == NoEntry

\* DiskCache.write_output body: mkdir the entry directory, (over)write the file
write_output(entry, bytes, metadata) ==
    [entry EXCEPT !.dir = TRUE,
                  !.outs = (metadata.output_id :> bytes) @@ entry.outs]

\* DiskCache.dump_metadata body: mkdir the entry directory, (over)write metadata.json
dump_metadata(entry, metadata) ==
    [entry EXCEPT !.dir = TRUE, !.meta = <<metadata>>]

\* DiskCache.load_metadata body: os.stat raises when metadata.json is absent
load_metadata(entry) ==
    [ok |-> entry.meta # <<>>, meta |-> entry.meta]

\* DiskCache.read_output body: ReadException when the named file is absent
read_output(entry, metadata) ==
    IF metadata.output_id \in DOMAIN entry.outs
    THEN [ok |-> TRUE, bytes |-> entry.outs[metadata.output_id]]
    ELSE [ok |-> FALSE, bytes |-> 0]

\* mutant of touch: the metadata is written back as it was loaded
touch_Unchanged(metadata) == metadata

\* what DiskCache.update_last_accessed writes back
touch(metadata) == [metadata EXCEPT !.last_accessed = TRUE]

-----------------------------------------------------------------------------
(* caches/base.py run by one caller alone: each step fails when the fault   *)
(* is injected at it or when the file it needs is missing                   *)

\* DiskCache.update_last_accessed: load_metadata, then dump_metadata
update_last_accessed(d, key, fault) ==
    LET lm == load_metadata(d[key]) IN
    IF fault = "load_metadata" \/ ~lm.ok THEN [ok |-> FALSE, disk |-> d]
    ELSE IF fault = "dump_metadata" THEN [ok |-> FALSE, disk |-> d]
    ELSE [ok |-> TRUE,
          disk |-> [d EXCEPT ![key] = dump_metadata(d[key], touch(lm.meta[1]))]]

\* BaseCache.read: update_last_accessed, load_metadata, read_output
Cache_read(d, key, fault) ==
    LET ua == update_last_accessed(d, key, fault)
        lm == load_metadata(ua.disk[key])
        ro == read_output(ua.disk[key], lm.meta[1])
    IN  IF ~ua.ok \/ ~lm.ok THEN [ok |-> FALSE, bytes |-> 0, disk |-> ua.disk]
        ELSE IF fault = "read_output" \/ ~ro.ok
        THEN [ok |-> FALSE, bytes |-> 0, disk |-> ua.disk]
        ELSE [ok |-> TRUE, bytes |-> ro.bytes, disk |-> ua.disk]

\* mutant of Cache_write: the metadata is dumped before the old entry is
\* evicted
Cache_write_EvictLast(d, key, bytes, metadata, fault) ==
    LET d1 == [d EXCEPT ![key] = dump_metadata(d[key], metadata)]
        d2 == [d1 EXCEPT ![key] = evict(d1[key])]
        d3 == [d2 EXCEPT ![key] = write_output(d2[key], bytes, metadata)]
        ua == update_last_accessed(d3, key, fault)
    IN  [ok |-> ua.ok, disk |-> ua.disk]

\* BaseCache.write: evict, write_output, dump_metadata, update_last_accessed
Cache_write(d, key, bytes, metadata, fault) ==
    LET d1 == [d EXCEPT ![key] = evict(d[key])]
        d2 == [d1 EXCEPT ![key] = write_output(d1[key], bytes, metadata)]
        d3 == [d2 EXCEPT ![key] = dump_metadata(d2[key], metadata)]
        ua == update_last_accessed(d3, key, fault)
    IN  IF fault = "write_output" THEN [ok |-> FALSE, disk |-> d1]
        ELSE IF fault = "dump_metadata" THEN [ok |-> FALSE, disk |-> d2]
        ELSE [ok |-> ua.ok, disk |-> ua.disk]

-----------------------------------------------------------------------------
(* core.py: CacheableFunction *)

\* CacheableFunction._load: the guards, cache.read and deserialize; every
\* failure becomes a LoadException (ok = FALSE)
Load(d, key, fault) ==
    LET rd == Cache_read(d, key, fault)
        de == deserialize(rd.bytes)
    IN  IF ~exists(d[key]) THEN [ok |-> FALSE, value |-> 0, disk |-> d]
        ELSE IF ~rd.ok THEN [ok |-> FALSE, value |-> 0, disk |-> rd.disk]
        ELSE IF fault = "deserialize" \/ ~de.ok
        THEN [ok |-> FALSE, value |-> 0, disk |-> rd.disk]
        ELSE [ok |-> TRUE, value |-> de.value, disk |-> rd.disk]

\* mutant of Dump: the old entry is evicted before the output is serialized
Dump_EvictFirst(d, key, output, fault) ==
    LET bytes == serialize(output)
        metadata == create_metadata(key.input_id, get_output_id_from_bytes(bytes))
        wr == Cache_write(d, key, bytes, metadata, fault)
    IN  IF fault = "serialize"
        THEN [ok |-> FALSE, disk |-> [d EXCEPT ![key] = evict(d[key])]]
        ELSE [ok |-> wr.ok, disk |-> wr.disk]

\* CacheableFunction._dump: serialize, output id, metadata and cache.write;
\* every failure becomes a DumpException (ok = FALSE)
Dump(d, key, output, fault) ==
    LET bytes == serialize(output)
        metadata == create_metadata(key.input_id, get_output_id_from_bytes(bytes))
        wr == Cache_write(d, key, bytes, metadata, fault)
    IN  IF fault = "serialize" THEN [ok |-> FALSE, disk |-> d]
        ELSE [ok |-> wr.ok, disk |-> wr.disk]

\* mutant of ReadBranch: the loaded output is not returned
ReadBranch_NoReturn(c, d, key, fault) ==
    LET ld == Load(d, key, fault) IN
    IF fault = "exists"
    THEN [state |-> "raise", value |-> 0, disk |-> d, ops |-> {"exists"}]
    ELSE IF ~exists(d[key])
    THEN [state |-> "miss", value |-> 0, disk |-> d, ops |-> {"exists"}]
    ELSE [state |-> "miss", value |-> 0, disk |-> ld.disk, ops |-> {"exists", "load"}]

\* the read branch of __call__ (lines 135-148): "raise" when an exception
\* leaves the branch uncaught, "hit" when the loaded value is returned,
\* "miss" when the call goes on to execute the function
ReadBranch(c, d, key, fault) ==
    LET ld == Load(d, key, fault) IN
    IF fault = "exists"
    THEN [state |-> "raise", value |-> 0, disk |-> d, ops |-> {"exists"}]
    ELSE IF ~exists(d[key])
    THEN [state |-> "miss", value |-> 0, disk |-> d, ops |-> {"exists"}]
    ELSE IF ~ld.ok
    THEN [state |-> "miss", value |-> 0, disk |-> ld.disk, ops |-> {"exists", "load"}]
    ELSE IF is_passing_filter(c, ld.value) = "raise"
    THEN [state |-> "raise", value |-> 0, disk |-> ld.disk, ops |-> {"exists", "load"}]
    ELSE IF is_passing_filter(c, ld.value) = "reject"
    THEN [state |-> "miss", value |-> 0, disk |-> ld.disk, ops |-> {"exists", "load"}]
    ELSE [state |-> "hit", value |-> ld.value, disk |-> ld.disk,
          ops |-> {"exists", "load"}]

\* mutant of ExecuteBranch: the output is dumped whatever the write flag
ExecuteBranch_AlwaysWrite(write, d, key, args, fault, ops) ==
    LET output == Fn(args)
        dp == Dump(d, key, output, fault)
    IN  [outcome |-> "return", ret |-> output, invoked |-> 1,
         ops |-> ops \cup {"dump"}, stored |-> dp.ok, disk |-> dp.disk]

\* the execute-and-write part of __call__ (lines 150-161)
ExecuteBranch(write, d, key, args, fault, ops) ==
    LET output == Fn(args)
        dp == Dump(d, key, output, fault)
    IN  IF write = "True"
        THEN [outcome |-> "return", ret |-> output, invoked |-> 1,
              ops |-> ops \cup {"dump"}, stored |-> dp.ok, disk |-> dp.disk]
        ELSE [outcome |-> "return", ret |-> output, invoked |-> 1,
              ops |-> ops, stored |-> FALSE, disk |-> d]

\* mutant of call: a failed key derivation is not a reason to skip the cache
call_KeyFailureIgnored(read, write, c, d, args, fault) ==
    LET key == get_input_key_from_args(args)
        rb == ReadBranch(c, d, key, fault)
        cold == [outcome |-> "return", ret |-> Fn(args), invoked |-> 1,
                 ops |-> {}, stored |-> FALSE, disk |-> d]
    IN  IF ~(read = "True" \/ write = "True") THEN cold
        ELSE IF read = "True" /\ rb.state = "raise"
        THEN [outcome |-> "raise", ret |-> 0, invoked |-> 0,
              ops |-> rb.ops, stored |-> FALSE, disk |-> rb.disk]
        ELSE IF read = "True" /\ rb.state = "hit"
        THEN [outcome |-> "return", ret |-> rb.value, invoked |-> 0,
              ops |-> rb.ops, stored |-> FALSE, disk |-> rb.disk]
        ELSE IF read = "True"
        THEN ExecuteBranch(write, rb.disk, key, args, fault, rb.ops)
        ELSE ExecuteBranch(write, d, key, args, fault, {})

\* CacheableFunction.__call__ given the resolved flags: what the caller gets
\* (outcome, ret), how often the wrapped function ran (invoked), the cache
\* operations attempted (ops), whether a dump succeeded, and the disk after
call(read, write, c, d, args, fault) ==
    LET key == get_input_key_from_args(args)
        rb == ReadBranch(c, d, key, fault)
        cold == [outcome |-> "return", ret |-> Fn(args), invoked |-> 1,
                 ops |-> {}, stored |-> FALSE, disk |-> d]
    IN  IF ~(read = "True" \/ write = "True") THEN cold
        ELSE IF fault = "key" THEN cold
        ELSE IF read = "True" /\ rb.state = "raise"
        THEN [outcome |-> "raise", ret |-> 0, invoked |-> 0,
              ops |-> rb.ops, stored |-> FALSE, disk |-> rb.disk]
        ELSE IF read = "True" /\ rb.state = "hit"
        THEN [outcome |-> "return", ret |-> rb.value, invoked |-> 0,
              ops |-> rb.ops, stored |-> FALSE, disk |-> rb.disk]
        ELSE IF read = "True"
        THEN ExecuteBranch(write, rb.disk, key, args, fault, rb.ops)
        ELSE ExecuteBranch(write, d, key, args, fault, {})

\* mutant of ExecuteRaising: the entry is written before the function's
\* exception leaves the call
ExecuteRaising_DumpFirst(write, d, key, ops) ==
    IF write = "True"
    THEN [outcome |-> "raise_fn", ret |-> 0, invoked |-> 1,
          ops |-> ops \cup {"dump"}, stored |-> TRUE,
          disk |-> Dump(d, key, 0, "none").disk]
    ELSE [outcome |-> "raise_fn", ret |-> 0, invoked |-> 1, ops |-> ops,
          stored |-> FALSE, disk |-> d]

\* lines 150-151 of __call__ when the wrapped function raises: its exception
\* leaves the call ("raise_fn") before the write branch is looked at
ExecuteRaising(write, d, key, ops) ==
    [outcome |-> "raise_fn", ret |-> 0, invoked |-> 1, ops |-> ops,
     stored |-> FALSE, disk |-> d]

\* CacheableFunction.__call__ for a wrapped function that raises when it is
\* run.  "touch" in ops: the load got as far as BaseCache.read, whose
\* update_last_accessed rewrote metadata.json with a new last_accessed
call_raising(read, write, c, d, args) ==
    LET key == get_input_key_from_args(args)
        rb == ReadBranch(c, d, key, "none")
        touch_ops == IF "load" \in rb.ops /\ update_last_accessed(d, key, "none").ok
                     THEN rb.ops \cup {"touch"} ELSE rb.ops
    IN  IF ~(read = "True" \/ write = "True") THEN ExecuteRaising(write, d, key, {})
        ELSE IF read = "True" /\ rb.state = "raise"
        THEN [outcome |-> "raise", ret |-> 0, invoked |-> 0,
              ops |-> touch_ops, stored |-> FALSE, disk |-> rb.disk]
        ELSE IF read = "True" /\ rb.state = "hit"
        THEN [outcome |-> "return", ret |-> rb.value, invoked |-> 0,
              ops |-> touch_ops, stored |-> FALSE, disk |-> rb.disk]
        ELSE IF read = "True"
        THEN ExecuteRaising(write, rb.disk, key, touch_ops)
        ELSE ExecuteRaising(write, d, key, {})

\* last: kind of the operation; for a call its non-excluded argument a,
\* whether a failure was injected and whether it was the key derivation that
\* failed, what the caller got (outcome, ret), how often the wrapped
\* function ran and which cache operations were attempted
NoCall == [kind |-> "none", a |-> 0, faulty |-> FALSE, keyfail |-> FALSE,
           outcome |-> "none", ret |-> 0, invoked |-> 0, ops |-> {}]

\* one call foo(a, _p) of the cacheable function, with at most one injected
\* failure
Call(args, fault) ==
    \E r \in {call(ReadNow, WriteNow, ctl, disk, args, fault)} :
    /\ disk' = r.disk
    /\ last' = [kind |-> "call", a |-> args["a"], faulty |-> fault # "none",
                keyfail |-> fault = "key",
                outcome |-> r.outcome, ret |-> r.ret, invoked |-> r.invoked,
                ops |-> r.ops]
    /\ UNCHANGED <<ctl_vars, job, lock, hashes>>

\* one call of a cacheable function whose wrapped function raises when run
CallRaising(args) ==
    \E r \in {call_raising(ReadNow, WriteNow, ctl, disk, args)} :
    /\ disk' = r.disk
    /\ last' = [kind |-> "call_raising", a |-> args["a"], faulty |-> FALSE,
                keyfail |-> FALSE,
                outcome |-> r.outcome, ret |-> r.ret, invoked |-> r.invoked,
                ops |-> r.ops]
    /\ UNCHANGED <<ctl_vars, job, lock, hashes>>

\* cache.evict(input_key) by the owner of the cache, run alone
Evict(key) ==
    /\ disk' = [disk EXCEPT ![key] = evict(disk[key])]
    /\ last' = [NoCall EXCEPT !.kind = "evict"]
    /\ UNCHANGED <<ctl_vars, job, lock, hashes>>

\* CacheableFunction.clear_cache: DiskCache.clear removes the function directory
ClearCache ==
    /\ disk' = [k \in InputKeys |->
                  IF k.function_id = "foo" THEN NoEntry ELSE disk[k]]
    /\ last' = [NoCall EXCEPT !.kind = "clear"]
    /\ UNCHANGED <<ctl_vars, job, lock, hashes>>

-----------------------------------------------------------------------------
(* caches/disk.py and caches/base.py used by several processes at once:      *)
(* every lock-guarded method is two steps (take the FileLock, run the body   *)
(* and release), rmtree is one step per file, and nothing else is atomic     *)

Procs == 1 .. NumProcs

\* the entries the processes contend for
DiskKeys == {get_input_key_from_args(args) : args \in {x \in AllArgs : x["a"] = 1}}

\* the output_id "output" that test_concurrent_writes gives to both writers
SharedOutputId == 100

\* the bytes process p passes to write: every process its own, so that the
\* content of a file tells who wrote it
BytesOf(p) == p

\* the output ids process p may pass to write: the shared one, or the digest
\* of its bytes as CacheableFunction._dump computes it
OutputIdsOf(p) == {SharedOutputId, get_output_id_from_bytes(BytesOf(p))}

\* DiskCache._construct_input_path and _construct_lock_path (md5 of the
\* entry path, taken as injective)
construct_input_path(key) == <<"functions", key.function_id, "inputs", key.input_id>>

\* mutant of construct_lock_path: one lock file for the whole cache
construct_lock_path_Shared(key) == <<"locks">>

construct_lock_path(key) == <<"locks", construct_input_path(key)>>
LockPaths == {construct_lock_path(k) : k \in InputKeys}

\* the file name metadata.json among the files of an entry directory; the
\* other files are named by their output id
MetadataFile == 0
Files(entry) == (IF entry.meta # <<>> THEN {MetadataFile} ELSE {}) \cup DOMAIN entry.outs

\* os.unlink of one file of the entry directory (no error if it is gone)
unlink(entry, f) ==
    IF f = MetadataFile THEN [entry EXCEPT !.meta = <<>>]
    ELSE [entry EXCEPT !.outs = [o \in DOMAIN entry.outs \ {f} |-> entry.outs[o]]]

\* os.rmdir at the end of rmtree: fails, ignored, when the directory is not empty
rmdir(entry) == IF Files(entry) = {} THEN NoEntry ELSE entry

\* mutant of Steps: write() dumps the metadata before it writes the output
Steps_MetadataFirst(op) ==
    CASE op = "read"  -> <<"ula.load_metadata", "ula.dump_metadata",
                           "load_metadata", "read_output">>
      [] op = "write" -> <<"evict", "dump_metadata", "write_output",
                           "ula.load_metadata", "ula.dump_metadata">>
      [] op = "evict" -> <<"evict">>

\* the backend methods BaseCache.read, BaseCache.write and evict go through,
\* in order; "ula." marks the two halves of update_last_accessed
Steps(op) ==
    CASE op = "read"  -> <<"ula.load_metadata", "ula.dump_metadata",
                           "load_metadata", "read_output">>
      [] op = "write" -> <<"evict", "write_output", "dump_metadata",
                           "ula.load_metadata", "ula.dump_metadata">>
      [] op = "evict" -> <<"evict">>

\* job[p]: the call (op, key, bytes), the metadata in hand, the step it is at
\* and where in that step, the files rmtree still has to unlink, and once
\* done the result and the bytes returned
IdleJob == [op |-> "idle", key |-> CHOOSE k \in DiskKeys : TRUE, bytes |-> 0,
            held |-> <<>>, i |-> 0, phase |-> "idle", todo |-> {},
            result |-> "none", ret |-> 0]

\* the call is over: only what the caller sees is kept
Done(j, result, ret) ==
    [IdleJob EXCEPT !.op = j.op, !.key = j.key, !.phase = "done",
                    !.result = result, !.ret = ret]

\* the step at hand is over: on to the next one, or return
Advance(j, ret) ==
    IF j.i = Len(Steps(j.op)) THEN Done(j, "ok", ret)
    ELSE [j EXCEPT !.i = j.i + 1, !.phase = "wait", !.todo = {}]

\* mutant of Release: the lock is kept when the body raised
Release_NotOnException(l, p, key, raised) ==
    IF raised THEN l
    ELSE [l EXCEPT ![construct_lock_path(key)] = @ \ {p}]

\* leaving "with FileLock(lock_path)": the lock is released however the body ended
Release(l, p, key, raised) ==
    [l EXCEPT ![construct_lock_path(key)] = @ \ {p}]

\* mutant of CanAcquire: the lock is taken whoever holds it
CanAcquire_Always(l, key) == TRUE

\* FileLock.acquire succeeds only while nobody holds the lock file
CanAcquire(l, key) == l[construct_lock_path(key)] = {}

StartRead(p, key) ==
    /\ job[p].phase \in {"idle", "done"}
    /\ job' = [job EXCEPT ![p] =
                 [IdleJob EXCEPT !.op = "read", !.key = key, !.i = 1, !.phase = "wait"]]
    /\ UNCHANGED <<ctl_vars, disk, last, lock, hashes>>

StartWrite(p, key, oid) ==
    /\ job[p].phase \in {"idle", "done"}
    /\ job' = [job EXCEPT ![p] =
                 [IdleJob EXCEPT !.op = "write", !.key = key, !.bytes = BytesOf(p),
                                 !.held = <<create_metadata(key.input_id, oid)>>,
                                 !.i = 1, !.phase = "scan"]]
    /\ UNCHANGED <<ctl_vars, disk, last, lock, hashes>>

StartEvict(p, key) ==
    /\ job[p].phase \in {"idle", "done"}
    /\ job' = [job EXCEPT ![p] =
                 [IdleJob EXCEPT !.op = "evict", !.key = key, !.i = 1, !.phase = "scan"]]
    /\ UNCHANGED <<ctl_vars, disk, last, lock, hashes>>

\* acquire_lock: entering "with FileLock(lock_path)"
Acquire(p) ==
    /\ job[p].phase = "wait"
    /\ CanAcquire(lock, job[p].key)
    /\ lock' = [lock EXCEPT ![construct_lock_path(job[p].key)] = @ \cup {p}]
    /\ job' = [job EXCEPT ![p].phase = "in"]
    /\ UNCHANGED <<ctl_vars, disk, last, hashes>>

\* the body of the lock-guarded method at hand, and the release of the lock
ExecBody(p) ==
    LET j == job[p]
        e == disk[j.key]
        step == Steps(j.op)[j.i]
    IN
    /\ j.phase = "in"
    /\ \/ /\ step \in {"ula.load_metadata", "load_metadata"}
          /\ IF load_metadata(e).ok
             THEN job' = [job EXCEPT ![p] =
                            Advance([j EXCEPT !.held = load_metadata(e).meta], 0)]
             ELSE job' = [job EXCEPT ![p] = Done(j, "FileNotFoundError", 0)]
          /\ lock' = Release(lock, p, j.key, ~load_metadata(e).ok)
          /\ UNCHANGED disk
       \/ /\ step = "ula.dump_metadata"
          /\ disk' = [disk EXCEPT ![j.key] = dump_metadata(e, touch(j.held[1]))]
          /\ job' = [job EXCEPT ![p] = Advance(j, 0)]
          /\ lock' = Release(lock, p, j.key, FALSE)
       \/ /\ step = "dump_metadata"
          /\ disk' = [disk EXCEPT ![j.key] = dump_metadata(e, j.held[1])]
          /\ job' = [job EXCEPT ![p] = Advance(j, 0)]
          /\ lock' = Release(lock, p, j.key, FALSE)
       \/ /\ step = "write_output"
          /\ disk' = [disk EXCEPT ![j.key] = write_output(e, j.bytes, j.held[1])]
          /\ job' = [job EXCEPT ![p] = Advance(j, 0)]
          /\ lock' = Release(lock, p, j.key, FALSE)
       \/ /\ step = "read_output"
          /\ IF read_output(e, j.held[1]).ok
             THEN job' = [job EXCEPT ![p] = Advance(j, read_output(e, j.held[1]).bytes)]
             ELSE job' = [job EXCEPT ![p] = Done(j, "ReadException", 0)]
          /\ lock' = Release(lock, p, j.key, ~read_output(e, j.held[1]).ok)
          /\ UNCHANGED disk
    /\ UNCHANGED <<ctl_vars, hashes>>

Exec(p) == ExecBody(p) /\ UNCHANGED last

\* the same step, noting in last which process ran write_output last
ExecNoting(p) ==
    /\ ExecBody(p)
    /\ last' = IF Steps(job[p].op)[job[p].i] = "write_output"
               THEN [NoCall EXCEPT !.kind = "write_output", !.a = p]
               ELSE last

\* shutil.rmtree, first step: list the entry directory; a missing directory
\* is an error, ignored
RmtreeScan(p) ==
    /\ job[p].phase = "scan"
    /\ IF disk[job[p].key].dir
       THEN job' = [job EXCEPT ![p].phase = "unlink",
                               ![p].todo = Files(disk[job[p].key])]
       ELSE job' = [job EXCEPT ![p] = Advance(job[p], 0)]
    /\ UNCHANGED <<ctl_vars, disk, last, lock, hashes>>

\* shutil.rmtree: unlink one of the listed files
RmtreeUnlink(p, f) ==
    /\ job[p].phase = "unlink"
    /\ f \in job[p].todo
    /\ disk' = [disk EXCEPT ![job[p].key] = unlink(@, f)]
    /\ job' = [job EXCEPT ![p].todo = @ \ {f}]
    /\ UNCHANGED <<ctl_vars, last, lock, hashes>>

\* shutil.rmtree, last step: remove the directory itself
RmtreeRmdir(p) ==
    /\ job[p].phase = "unlink"
    /\ job[p].todo = {}
    /\ disk' = [disk EXCEPT ![job[p].key] = rmdir(@)]
    /\ job' = [job EXCEPT ![p] = Advance(job[p], 0)]
    /\ UNCHANGED <<ctl_vars, last, lock, hashes>>

\* the call is cancelled or interrupted between two steps: the with block
\* is left and the lock, if held, released
Cancel(p) ==
    /\ job[p].phase \in {"wait", "in", "scan", "unlink"}
    /\ job' = [job EXCEPT ![p] = Done(job[p], "cancelled", 0)]
    /\ lock' = Release(lock, p, job[p].key, TRUE)
    /\ UNCHANGED <<ctl_vars, disk, last, hashes>>

-----------------------------------------------------------------------------
(* The call model: scopes, environment, calls, evict and clear, with one     *)
(* caller at a time and no backend call of another process in flight        *)

Init ==
    /\ env_enabled = FALSE
    /\ env_disabled = FALSE
    /\ glob = [read |-> "None", write |-> "None"]
    /\ glob_scopes = <<>>
    /\ ctl = [read |-> "None", write |-> "None", filter |-> "None"]
    /\ ctl_scopes = <<>>
    /\ disk = [k \in InputKeys |-> NoEntry]
    /\ last = NoCall
    /\ job = <<>>
    /\ lock = <<>>
    /\ hashes = <<>>

Next ==
    \/ /\ Len(ctl_scopes) + Len(glob_scopes) < MaxScopes
       /\ \E r \in Bools, w \in Bools, f \in Filters : CtlEnable(r, w, f)
    \/ /\ Len(ctl_scopes) + Len(glob_scopes) < MaxScopes
       /\ CtlDisable
    \/ CtlExit
    \/ /\ Len(ctl_scopes) + Len(glob_scopes) < MaxScopes
       /\ \E r \in Bools, w \in Bools : GlobalEnable(r, w)
    \/ GlobalExit
    \/ \E args \in AllArgs, fault \in Faults :
          \* failures are injected into the calls foo(1, 0) only
          /\ (args["a"] = 1 /\ args["_p"] = 0) \/ fault = "none"
          /\ Call(args, fault)
    \/ \E args \in AllArgs : args["_p"] = 0 /\ CallRaising(args)
    \/ \E key \in InputKeys : Evict(key)
    \/ ClearCache
    \/ \E e \in BOOLEAN, d \in BOOLEAN : SetEnv(e, d)

Spec == Init /\ [][Next]_vars

(* The controller model: nested scopes and the environment alone *)

InitCtl == Init

NextCtl ==
    \/ /\ Len(ctl_scopes) < MaxNest
       /\ \E r \in Bools, w \in Bools, f \in Filters : CtlEnable(r, w, f)
    \/ /\ Len(ctl_scopes) < MaxNest
       /\ CtlDisable
    \/ CtlExit
    \/ /\ Len(glob_scopes) < MaxGlobalNest
       /\ \E r \in Bools, w \in Bools : GlobalEnable(r, w)
    \/ GlobalExit
    \/ \E e \in BOOLEAN, d \in BOOLEAN : SetEnv(e, d)

SpecCtl == InitCtl /\ [][NextCtl]_vars

(* The disk model: processes running read, write and evict at the same time *)

InitDisk ==
    /\ env_enabled = FALSE
    /\ env_disabled = FALSE
    /\ glob = [read |-> "None", write |-> "None"]
    /\ glob_scopes = <<>>
    /\ ctl = [read |-> "None", write |-> "None", filter |-> "None"]
    /\ ctl_scopes = <<>>
    /\ disk = [k \in InputKeys |-> NoEntry]
    /\ last = NoCall
    /\ job = [p \in Procs |-> IdleJob]
    /\ lock = [l \in LockPaths |-> {}]
    /\ hashes = <<>>

NextDisk ==
    \E p \in Procs :
        \/ \E key \in DiskKeys : StartRead(p, key)
        \/ \E key \in DiskKeys : StartWrite(p, key, SharedOutputId)
        \/ \E key \in DiskKeys : StartEvict(p, key)
        \/ Acquire(p)
        \/ Exec(p)
        \/ RmtreeScan(p)
        \/ \E f \in job[p].todo : RmtreeUnlink(p, f)
        \/ RmtreeRmdir(p)
        \/ Cancel(p)

SpecDisk == InitDisk /\ [][NextDisk]_vars

\* the scheduler lets a process that can take a step take it, and a process
\* polling for a lock that is free again and again get it
FairDisk ==
    \A p \in Procs :
        /\ WF_vars(Exec(p) \/ RmtreeScan(p) \/ RmtreeRmdir(p)
                      \/ \E f \in {MetadataFile, SharedOutputId} : RmtreeUnlink(p, f))
        /\ SF_vars(Acquire(p))

SpecDiskFair == SpecDisk /\ FairDisk

(* The writers model: every process writes the entry once, at the same time, *)
(* and when all writes have returned the entry is read                        *)

AllWritten ==
    \A q \in Procs :
        job[q].op = "write" /\ job[q].phase = "done" /\ job[q].result = "ok"

InitWriters == InitDisk

NextWriters ==
    \/ \E p \in Procs, key \in DiskKeys : \E oid \in OutputIdsOf(p) :
          job[p].phase = "idle" /\ StartWrite(p, key, oid)
    \/ \E p \in Procs : Acquire(p)
    \/ \E p \in Procs : ExecNoting(p)
    \/ \E p \in Procs : RmtreeScan(p)
    \/ \E p \in Procs : \E f \in job[p].todo : RmtreeUnlink(p, f)
    \/ \E p \in Procs : RmtreeRmdir(p)
    \/ \E key \in DiskKeys : AllWritten /\ StartRead(1, key)

SpecWriters == InitWriters /\ [][NextWriters]_vars

(* The interruption model: one caller at a time uses the entry, and a call   *)
(* may be interrupted (its process killed, its task cancelled) at any point  *)

\* no process other than p is in a call
Quiet(p) == \A q \in Procs \ {p} : job[q].phase \in {"idle", "done"}

InitInterrupt == InitDisk

NextInterrupt ==
    \E p \in Procs :
        \/ \E key \in DiskKeys : Quiet(p) /\ StartRead(p, key)
        \/ \E key \in DiskKeys : \E oid \in OutputIdsOf(p) :
              Quiet(p) /\ StartWrite(p, key, oid)
        \/ Acquire(p)
        \/ Exec(p)
        \/ RmtreeScan(p)
        \/ \E f \in job[p].todo : RmtreeUnlink(p, f)
        \/ RmtreeRmdir(p)
        \/ Cancel(p)

SpecInterrupt == InitInterrupt /\ [][NextInterrupt]_vars

(* The race model: every process makes one call (read, write or evict) on    *)
(* one of the entries, which may hold an output written earlier, and the     *)
(* steps of the calls interleave                                             *)

\* the entry an earlier, undisturbed write(0, m, key) has left
EarlierEntry(key) ==
    Cache_write([k \in InputKeys |-> NoEntry], key, 0,
                create_metadata(key.input_id, SharedOutputId), "none").disk[key]

InitRace ==
    /\ env_enabled = FALSE
    /\ env_disabled = FALSE
    /\ glob = [read |-> "None", write |-> "None"]
    /\ glob_scopes = <<>>
    /\ ctl = [read |-> "None", write |-> "None", filter |-> "None"]
    /\ ctl_scopes = <<>>
    /\ disk \in {[k \in InputKeys |-> NoEntry], [k \in InputKeys |-> EarlierEntry(k)]}
    /\ last = NoCall
    /\ job = [p \in Procs |-> IdleJob]
    /\ lock = [l \in LockPaths |-> {}]
    /\ hashes = <<>>

NextRace ==
    \E p \in Procs :
        \/ \E key \in InputKeys : job[p].phase = "idle" /\ StartRead(p, key)
        \/ \E key \in InputKeys :
              /\ job[p].phase = "idle"
              /\ StartWrite(p, key, get_output_id_from_bytes(BytesOf(p)))
        \/ \E key \in InputKeys : job[p].phase = "idle" /\ StartEvict(p, key)
        \/ Acquire(p)
        \/ Exec(p)
        \/ RmtreeScan(p)
        \/ \E f \in job[p].todo : RmtreeUnlink(p, f)
        \/ RmtreeRmdir(p)

SpecRace == InitRace /\ [][NextRace]_vars

(* The backend model: one caller using the disk cache directly, one call    *)
(* after the other, on the entries of two functions                         *)

BackendFunctionIds == {"foo", "bar"}
BackendKeys == [function_id : BackendFunctionIds, input_id : InputIds]
BackendBytes == {1, 2}

\* the output ids a caller passes with bytes b: the name "output" of the
\* tests, or the digest of b
BackendOutputIds(b) == {SharedOutputId, get_output_id_from_bytes(b)}

\* last in the backend model: the method called, its key and bytes, how it
\* ended ("ok" or the exception raised) and the bytes returned
NoBackendCall == [kind |-> "none", key |-> CHOOSE k \in BackendKeys : TRUE,
                  bytes |-> 0, result |-> "none", ret |-> 0]

\* the exception BaseCache.read ends with on the disk backend ("none" when
\* it returns): load_metadata lets os.stat's FileNotFoundError through,
\* read_output wraps its failure in ReadException
read_exception(d, key) ==
    IF ~load_metadata(d[key]).ok THEN "FileNotFoundError"
    ELSE IF ~read_output(d[key], load_metadata(d[key]).meta[1]).ok THEN "ReadException"
    ELSE "none"

\* cache.write(bytes, metadata, key)
BackendWrite(key, bytes, oid) ==
    \E r \in {Cache_write(disk, key, bytes,
                          create_metadata(key.input_id, oid), "none")} :
    /\ disk' = r.disk
    /\ last' = [NoBackendCall EXCEPT !.kind = "write", !.key = key, !.bytes = bytes,
                                    !.result = IF r.ok THEN "ok" ELSE "FileNotFoundError"]
    /\ UNCHANGED <<ctl_vars, job, lock, hashes>>

\* cache.read(key)
BackendRead(key) ==
    \E r \in {Cache_read(disk, key, "none")} :
    /\ disk' = r.disk
    /\ last' = [NoBackendCall EXCEPT !.kind = "read", !.key = key,
                                    !.result = IF r.ok THEN "ok"
                                               ELSE read_exception(disk, key),
                                    !.ret = r.bytes]
    /\ UNCHANGED <<ctl_vars, job, lock, hashes>>

\* cache.evict(key)
BackendEvict(key) ==
    /\ disk' = [disk EXCEPT ![key] = evict(disk[key])]
    /\ last' = [NoBackendCall EXCEPT !.kind = "evict", !.key = key, !.result = "ok"]
    /\ UNCHANGED <<ctl_vars, job, lock, hashes>>

\* DiskCache.list: the entry directories under the function's inputs path
list(d, function_id) ==
    {k \in DOMAIN d : k.function_id = function_id /\ d[k].dir}

\* shutil.copytree(..., dirs_exist_ok=True) of one entry directory onto
\* another: files of the source replace files of the same name, other files
\* of the destination stay
copytree(from_entry, to_entry) ==
    [dir |-> TRUE,
     meta |-> IF from_entry.meta # <<>> THEN from_entry.meta ELSE to_entry.meta,
     outs |-> from_entry.outs @@ to_entry.outs]

\* mutant of adopt: the entries are copied and the source is left in place
adopt_CopyOnly(d, from, to) ==
    [k \in DOMAIN d |->
        IF k.function_id = to /\ d[[k EXCEPT !.function_id = from]].dir
        THEN copytree(d[[k EXCEPT !.function_id = from]], d[k])
        ELSE d[k]]

\* DiskCache.adopt: copytree of the function directory, then rmtree of the
\* source
adopt(d, from, to) ==
    [k \in DOMAIN d |->
        IF k.function_id = from THEN NoEntry
        ELSE IF k.function_id = to /\ d[[k EXCEPT !.function_id = from]].dir
        THEN copytree(d[[k EXCEPT !.function_id = from]], d[k])
        ELSE d[k]]

\* cache.adopt(from, to) for two different functions.  Whether the directory
\* of a function without entries exists is not part of the state: if it
\* does not, copytree raises FileNotFoundError and nothing changes
BackendAdopt(from, to) ==
    /\ from # to
    /\ \E result \in {"ok", "FileNotFoundError"} :
          /\ result = "FileNotFoundError" => list(disk, from) = {}
          /\ disk' = IF result = "ok" THEN adopt(disk, from, to) ELSE disk
          /\ last' = [NoBackendCall EXCEPT
                        !.kind = "adopt",
                        !.key = [NoBackendCall.key EXCEPT !.function_id = from],
                        !.result = result]
    /\ UNCHANGED <<ctl_vars, job, lock, hashes>>

InitBackend ==
    /\ env_enabled = FALSE
    /\ env_disabled = FALSE
    /\ glob = [read |-> "None", write |-> "None"]
    /\ glob_scopes = <<>>
    /\ ctl = [read |-> "None", write |-> "None", filter |-> "None"]
    /\ ctl_scopes = <<>>
    /\ disk = [k \in BackendKeys |-> NoEntry]
    /\ last = NoBackendCall
    /\ job = <<>>
    /\ lock = <<>>
    /\ hashes = <<>>

NextBackend ==
    \/ \E key \in BackendKeys, b \in BackendBytes :
          \E oid \in BackendOutputIds(b) : BackendWrite(key, b, oid)
    \/ \E key \in BackendKeys : BackendRead(key)
    \/ \E key \in BackendKeys : BackendEvict(key)
    \/ \E from \in BackendFunctionIds, to \in BackendFunctionIds : BackendAdopt(from, to)

SpecBackend == InitBackend /\ [][NextBackend]_vars

-----------------------------------------------------------------------------
(* caches/base.py and caches/disk.py: the public methods of the disk cache   *)
(* called one after the other by one caller on the entries of one function,  *)
(* write_output and dump_metadata on their own included.  last is the call  *)
(* made last: its method, key, the step at which it was made to fail, how   *)
(* it ended and what it returned.                                           *)

\* where write(bytes, metadata, key) can be made to fail
WriteFaults == {"none", "write_output", "dump_metadata"}

NoOpsCall == [kind |-> "none", key |-> CHOOSE k \in InputKeys : TRUE,
              fault |-> "none", result |-> "none", ret |-> 0]

\* DiskCache.get_last_accessed: the timestamp of the metadata, None when the
\* metadata has no such field; load_metadata raises when the file is absent
get_last_accessed(entry) ==
    IF ~load_metadata(entry).ok THEN [result |-> "FileNotFoundError", ret |-> "None"]
    ELSE IF load_metadata(entry).meta[1].last_accessed
    THEN [result |-> "ok", ret |-> "timestamp"]
    ELSE [result |-> "ok", ret |-> "None"]

\* cache.write(bytes, metadata, key), made to fail at the step fault
OpsWrite(key, bytes, oid, fault) ==
    \E r \in {Cache_write(disk, key, bytes, create_metadata(key.input_id, oid), fault)} :
    /\ disk' = r.disk
    /\ last' = [NoOpsCall EXCEPT !.kind = "write", !.key = key, !.fault = fault,
                                !.result = IF r.ok THEN "ok"
                                           ELSE IF fault = "write_output"
                                           THEN "WriteException" ELSE "OSError",
                                !.ret = bytes]
    /\ UNCHANGED <<ctl_vars, job, lock, hashes>>

\* cache.write_output(bytes, metadata, key)
OpsWriteOutput(key, bytes, oid) ==
    /\ disk' = [disk EXCEPT ![key] = write_output(disk[key], bytes,
                                                  create_metadata(key.input_id, oid))]
    /\ last' = [NoOpsCall EXCEPT !.kind = "write_output", !.key = key, !.result = "ok"]
    /\ UNCHANGED <<ctl_vars, job, lock, hashes>>

\* cache.dump_metadata(metadata, key)
OpsDumpMetadata(key, oid) ==
    /\ disk' = [disk EXCEPT ![key] = dump_metadata(disk[key],
                                                   create_metadata(key.input_id, oid))]
    /\ last' = [NoOpsCall EXCEPT !.kind = "dump_metadata", !.key = key, !.result = "ok"]
    /\ UNCHANGED <<ctl_vars, job, lock, hashes>>

\* cache.read(key)
OpsRead(key) ==
    \E r \in {Cache_read(disk, key, "none")} :
    /\ disk' = r.disk
    /\ last' = [NoOpsCall EXCEPT !.kind = "read", !.key = key,
                                !.result = IF r.ok THEN "ok" ELSE read_exception(disk, key),
                                !.ret = r.bytes]
    /\ UNCHANGED <<ctl_vars, job, lock, hashes>>

\* cache.get_last_accessed(key)
OpsGetLastAccessed(key) ==
    /\ last' = [NoOpsCall EXCEPT !.kind = "get_last_accessed", !.key = key,
                                !.result = get_last_accessed(disk[key]).result,
                                !.ret = get_last_accessed(disk[key]).ret]
    /\ UNCHANGED <<ctl_vars, disk, job, lock, hashes>>

\* cache.evict(key)
OpsEvict(key) ==
    /\ disk' = [disk EXCEPT ![key] = evict(disk[key])]
    /\ last' = [NoOpsCall EXCEPT !.kind = "evict", !.key = key, !.result = "ok"]
    /\ UNCHANGED <<ctl_vars, job, lock, hashes>>

\* cache.clear(function_key)
OpsClear ==
    /\ disk' = [k \in InputKeys |-> NoEntry]
    /\ last' = [NoOpsCall EXCEPT !.kind = "clear", !.result = "ok"]
    /\ UNCHANGED <<ctl_vars, job, lock, hashes>>

InitOps ==
    /\ env_enabled = FALSE
    /\ env_disabled = FALSE
    /\ glob = [read |-> "None", write |-> "None"]
    /\ glob_scopes = <<>>
    /\ ctl = [read |-> "None", write |-> "None", filter |-> "None"]
    /\ ctl_scopes = <<>>
    /\ disk = [k \in InputKeys |-> NoEntry]
    /\ last = NoOpsCall
    /\ job = <<>>
    /\ lock = <<>>
    /\ hashes = <<>>

NextOps ==
    \/ \E key \in InputKeys, b \in BackendBytes, fault \in WriteFaults :
          OpsWrite(key, b, get_output_id_from_bytes(b), fault)
    \/ \E key \in InputKeys, b \in BackendBytes :
          OpsWriteOutput(key, b, get_output_id_from_bytes(b))
    \/ \E key \in InputKeys, b \in BackendBytes :
          OpsDumpMetadata(key, get_output_id_from_bytes(b))
    \/ \E key \in InputKeys : OpsRead(key)
    \/ \E key \in InputKeys : OpsGetLastAccessed(key)
    \/ \E key \in InputKeys : OpsEvict(key)
    \/ OpsClear

SpecOps == InitOps /\ [][NextOps]_vars

-----------------------------------------------------------------------------
(* core.py: the by-id methods of CacheableFunction, called by one caller     *)
(* while the controller and the environment change                          *)

ByIdOutputs == {10, 20}

\* what a by-id method raised to its caller ("none" when it returned), the
\* exception that one was raised from, the value returned, the cache after
Returned(value, d) == [raised |-> "none", cause |-> "none", ret |-> value, disk |-> d]
Raised(exception, cause, d) == [raised |-> exception, cause |-> cause, ret |-> 0, disk |-> d]

\* CacheableFunction.load_output: _load, whose except clause turns every
\* exception of its body into a LoadException raised from it
load_output(read, d, key) ==
    LET ld == Load(d, key, "none") IN
    IF read # "True" THEN Raised("LoadException", "CacheNotEnabledError", d)
    ELSE IF ~exists(d[key]) THEN Raised("LoadException", "InputKeyNotFoundError", d)
    ELSE IF ~ld.ok THEN Raised("LoadException", "ReadException", ld.disk)
    ELSE Returned(ld.value, ld.disk)

\* CacheableFunction.dump_output: _dump, whose except clause turns every
\* exception of its body into a DumpException raised from it
dump_output(write, d, key, output) ==
    LET dp == Dump(d, key, output, "none") IN
    IF write # "True" THEN Raised("DumpException", "CacheNotEnabledError", d)
    ELSE IF ~dp.ok THEN Raised("DumpException", "WriteException", dp.disk)
    ELSE Returned(0, dp.disk)

\* CacheableFunction.load_metadata: the existence test, then cache.load_metadata
load_metadata_by_id(d, key) ==
    IF ~exists(d[key]) THEN Raised("InputKeyNotFoundError", "none", d)
    ELSE Returned(load_metadata(d[key]).meta[1], d)

\* CacheableFunction.get_output_path -> DiskCache.get_output_path: the
\* existence test, then the path built from the metadata's output_id
get_output_path(d, key) ==
    IF ~exists(d[key]) THEN Raised("InputKeyNotFoundError", "none", d)
    ELSE Returned(<<key, load_metadata(d[key]).meta[1].output_id>>, d)

\* CacheableFunction._get_input_key_from_input_id
get_input_key_from_input_id(input_id) ==
    [function_id |-> "foo", input_id |-> input_id]

\* what the caller observed of one by-id call
Observation(kind, input_id, r) ==
    [kind |-> kind, input_id |-> input_id,
     raised |-> r.raised, cause |-> r.cause, ret |-> r.ret]

LoadOutput(input_id) ==
    \E r \in {load_output(ReadNow, disk, get_input_key_from_input_id(input_id))} :
    /\ disk' = r.disk
    /\ last' = Observation("load_output", input_id, r)
    /\ UNCHANGED <<ctl_vars, job, lock, hashes>>

DumpOutput(output, input_id) ==
    \E r \in {dump_output(WriteNow, disk, get_input_key_from_input_id(input_id), output)} :
    /\ disk' = r.disk
    /\ last' = Observation("dump_output", input_id, r)
    /\ UNCHANGED <<ctl_vars, job, lock, hashes>>

LoadMetadata(input_id) ==
    \E r \in {load_metadata_by_id(disk, get_input_key_from_input_id(input_id))} :
    /\ disk' = r.disk
    /\ last' = Observation("load_metadata", input_id, r)
    /\ UNCHANGED <<ctl_vars, job, lock, hashes>>

GetOutputPath(input_id) ==
    \E r \in {get_output_path(disk, get_input_key_from_input_id(input_id))} :
    /\ disk' = r.disk
    /\ last' = Observation("get_output_path", input_id, r)
    /\ UNCHANGED <<ctl_vars, job, lock, hashes>>

\* cache.evict(input_key) by the owner of the cache, between by-id calls
EvictById(input_id) ==
    /\ disk' = [disk EXCEPT ![get_input_key_from_input_id(input_id)] = evict(@)]
    /\ last' = [kind |-> "evict", input_id |-> input_id,
                raised |-> "none", cause |-> "none", ret |-> 0]
    /\ UNCHANGED <<ctl_vars, job, lock, hashes>>

InitById ==
    /\ env_enabled = FALSE
    /\ env_disabled = FALSE
    /\ glob = [read |-> "None", write |-> "None"]
    /\ glob_scopes = <<>>
    /\ ctl = [read |-> "None", write |-> "None", filter |-> "None"]
    /\ ctl_scopes = <<>>
    /\ disk = [k \in InputKeys |-> NoEntry]
    /\ last = [kind |-> "none", input_id |-> {}, raised |-> "none", cause |-> "none",
               ret |-> 0]
    /\ job = <<>>
    /\ lock = <<>>
    /\ hashes = <<>>

NextById ==
    \/ /\ Len(ctl_scopes) < MaxScopes
       /\ \E r \in Bools, w \in Bools : CtlEnable(r, w, "None")
    \/ CtlExit
    \/ \E d \in BOOLEAN : SetEnv(FALSE, d)
    \/ \E input_id \in InputIds : LoadOutput(input_id)
    \/ \E input_id \in InputIds, output \in ByIdOutputs : DumpOutput(output, input_id)
    \/ \E input_id \in InputIds : LoadMetadata(input_id)
    \/ \E input_id \in InputIds : GetOutputPath(input_id)
    \/ \E input_id \in InputIds : EvictById(input_id)

SpecById == InitById /\ [][NextById]_vars

-----------------------------------------------------------------------------
(* keys.py: the key builder of sample_func(a, b=10, _p=0), called in the     *)
(* processes that follow one another on the same cache directory            *)

\* python values are [t |-> type, v |-> numeric value]: 1, 1.0 and True
\* compare equal and hash alike, and pickle differently
PyInt(n) == [t |-> "int", v |-> n]
PyFloat(n) == [t |-> "float", v |-> n]
PyTrue == [t |-> "bool", v |-> 1]

\* inspect.signature(sample_func): the parameters in order, and the defaults
Params == <<"a", "b", "_p">>
Defaults == ("b" :> PyInt(10)) @@ ("_p" :> PyInt(0))
ValuesOf == ("a" :> {PyInt(1), PyFloat(1), PyTrue})
            @@ ("b" :> {PyInt(10), PyInt(20)})
            @@ ("_p" :> {PyInt(0), PyInt(1)})

ParamIndex(name) == CHOOSE i \in 1..Len(Params) : Params[i] = name
NamesOf(items) == {items[i][1] : i \in 1..Len(items)}
ValueOf(items, name) == items[CHOOSE i \in 1..Len(items) : items[i][1] = name][2]

\* the calls sample_func(*args, **kwargs): positional values for a prefix of
\* the parameters, and keyword arguments, in the order written, for some of
\* the remaining parameters
AllPositional ==
    UNION {{s \in [1..n -> UNION {ValuesOf[m] : m \in DOMAIN ValuesOf}] :
               \A i \in 1..n : s[i] \in ValuesOf[Params[i]]} : n \in 0..Len(Params)}
AllKeywords ==
    UNION {{s \in [1..n -> UNION {{<<m, x>> : x \in ValuesOf[m]} : m \in DOMAIN ValuesOf}] :
               \A i, j \in 1..n : s[i][1] = s[j][1] => i = j} : n \in 0..Len(Params)}

\* keys._get_arguments: signature.bind(*args, **kwargs), which raises
\* TypeError (ok = FALSE) on a parameter given twice or a missing required
\* one, then apply_defaults; the arguments are in parameter order
get_arguments(args, kwargs) ==
    LET given(i) == i <= Len(args) \/ Params[i] \in NamesOf(kwargs)
        value(i) == IF i <= Len(args) THEN args[i]
                    ELSE IF Params[i] \in NamesOf(kwargs) THEN ValueOf(kwargs, Params[i])
                    ELSE Defaults[Params[i]]
    IN  IF /\ Len(args) <= Len(Params)
           /\ \A n \in NamesOf(kwargs) : ParamIndex(n) > Len(args)
           /\ \A i \in 1..Len(Params) : given(i) \/ Params[i] \in DOMAIN Defaults
        THEN [ok |-> TRUE, arguments |-> [i \in 1..Len(Params) |-> <<Params[i], value(i)>>]]
        ELSE [ok |-> FALSE, arguments |-> <<>>]

AllCalls ==
    {c \in [args : AllPositional, kwargs : AllKeywords] : get_arguments(c.args, c.kwargs).ok}

\* keys._default_exclude_args: arg.startswith("_")
default_exclude_args(arg) == arg = "_p"

\* keys._filter_arguments with the default exclusion predicate
filter_arguments(arguments) ==
    SelectSeq(arguments, LAMBDA item : ~default_exclude_args(item[1]))

\* pickle.dumps, and hashlib.md5 of it taken to be collision free
pickle(value) == <<value.t, value.v>>

\* the key functools.lru_cache(maxsize=128) files a one-argument call under:
\* the argument itself when it is an int, the tuple of the arguments
\* otherwise; tuples of values that compare equal are the same key
make_key(value) ==
    IF value.t = "int" THEN <<"int", value.v>> ELSE <<"args", value.v>>

\* keys._hash_argument behind its lru_cache: the digest returned, and the
\* cache after the call
cached_hash_argument(cache, arg) ==
    IF make_key(arg) \in DOMAIN cache
    THEN [hash |-> cache[make_key(arg)], cache |-> cache]
    ELSE [hash |-> pickle(arg), cache |-> (make_key(arg) :> pickle(arg)) @@ cache]

\* the dict comprehension of keys._hash_arguments: the arguments are hashed
\* one after the other, in the order of the mapping
RECURSIVE hash_items(_, _)
hash_items(cache, arguments) ==
    IF arguments = <<>> THEN [items |-> <<>>, cache |-> cache]
    ELSE LET h == cached_hash_argument(cache, Head(arguments)[2])
             rest == hash_items(h.cache, Tail(arguments))
         IN  [items |-> <<<<Head(arguments)[1], h.hash>>>> \o rest.items,
              cache |-> rest.cache]

\* sorted(items) of (name, digest) pairs with distinct names: by name, and
\* "_" sorts before the lower-case letters
NameOrder == <<"_p", "a", "b">>
RECURSIVE sorted_from(_, _)
sorted_from(items, k) ==
    IF k > Len(NameOrder) THEN <<>>
    ELSE SelectSeq(items, LAMBDA item : item[1] = NameOrder[k]) \o sorted_from(items, k + 1)
sorted(items) == sorted_from(items, 1)

\* keys._hash_arguments: the input_id is the md5 of the pickled sorted
\* tuple, collision free, so it is that tuple
hash_arguments(cache, arguments) ==
    LET h == hash_items(cache, arguments)
    IN  [input_id |-> sorted(h.items), cache |-> h.cache]

\* the key_builder keys.create_key_builder returns
key_builder(cache, args, kwargs) ==
    LET arguments == filter_arguments(get_arguments(args, kwargs).arguments)
        h == hash_arguments(cache, arguments)
    IN  [arguments |-> arguments, input_id |-> h.input_id, cache |-> h.cache]

\* what is kept of a call: the bound arguments, the arguments the key is
\* built from, and the key
Observed(bound, r) == [bound |-> bound, arguments |-> r.arguments, input_id |-> r.input_id]

\* prev is <<>>, or <<c>> for an earlier call c of the same function, made in
\* this process or in one before it
NoKey == [kind |-> "none", call |-> <<>>, prev |-> <<>>]

\* one call default_key_builder(sample_func, args, kwargs)
KeyCall(args, kwargs) ==
    /\ get_arguments(args, kwargs).ok
    /\ \E r \in {key_builder(hashes, args, kwargs)} :
       \E prev \in {last.prev} \cup {<<last.call>> : k \in {last.kind} \ {"none"}} :
          /\ hashes' = r.cache
          /\ last' = [kind |-> "key",
                      call |-> Observed(get_arguments(args, kwargs).arguments, r),
                      prev |-> prev]
    /\ UNCHANGED <<ctl_vars, disk, job, lock>>

\* the process ends and the next one imports keys.py: its lru_cache is empty
Restart ==
    /\ DOMAIN hashes # {}
    /\ hashes' = <<>>
    /\ UNCHANGED <<ctl_vars, disk, last, job, lock>>

InitKeys ==
    /\ env_enabled = FALSE
    /\ env_disabled = FALSE
    /\ glob = [read |-> "None", write |-> "None"]
    /\ glob_scopes = <<>>
    /\ ctl = [read |-> "None", write |-> "None", filter |-> "None"]
    /\ ctl_scopes = <<>>
    /\ disk = <<>>
    /\ last = NoKey
    /\ job = <<>>
    /\ lock = <<>>
    /\ hashes = <<>>

NextKeys ==
    \/ \E c \in AllCalls : KeyCall(c.args, c.kwargs)
    \/ Restart

SpecKeys == InitKeys /\ [][NextKeys]_vars

-----------------------------------------------------------------------------
(* controllers.py and core.py: two cacheable functions of one process.  foo  *)
(* has the controller ctl; bar's controller is never given a scope of its   *)
(* own.  Both were constructed with GlobalCacheController(), the singleton  *)
(* glob.                                                                    *)

\* CacheController.__init__: read, write and filter unset
UnsetCtl == [read |-> "None", write |-> "None", filter |-> "None"]

\* the controller of a cacheable function
ControllerOf(function_id) == IF function_id = "foo" THEN ctl ELSE UnsetCtl

\* mutant of GlobalOf: a controller other than foo's holds a global
\* controller of its own, which no scope ever sets
GlobalOf_PerController(function_id) ==
    IF function_id = "foo" THEN glob ELSE [read |-> "None", write |-> "None"]

\* CacheController._global: GlobalCacheController.__new__ returns _instance
GlobalOf(function_id) == glob

\* CacheController.is_read_enabled / is_write_enabled of a function
ReadOf(function_id) ==
    is_read_enabled(ControllerOf(function_id), GlobalOf(function_id),
                    env_enabled, env_disabled)
WriteOf(function_id) ==
    is_write_enabled(ControllerOf(function_id), GlobalOf(function_id),
                     env_enabled, env_disabled)

\* DiskCache._construct_function_path: the entries of one function, under
\* the keys the function itself uses for them
FunctionView(d, function_id) ==
    [k \in InputKeys |-> d[[k EXCEPT !.function_id = function_id]]]

\* the cache directory after a function changed its own entries to view
WithFunctionView(d, function_id, view) ==
    [k \in DOMAIN d |->
        IF k.function_id = function_id
        THEN view[[k EXCEPT !.function_id = "foo"]]
        ELSE d[k]]

\* CacheableFunction.__call__ of the function named function_id
call_of(function_id, read, write, c, d, args) ==
    LET r == call(read, write, c, FunctionView(d, function_id), args, "none")
    IN  [r EXCEPT !.disk = WithFunctionView(d, function_id, r.disk)]

NoGlobalCall == [kind |-> "none", function_id |-> "none", a |-> 0, outcome |-> "none",
                 ret |-> 0, invoked |-> 0, ops |-> {}]

\* one call foo(a, _p) or bar(a, _p)
CallOf(function_id, args) ==
    \E r \in {call_of(function_id, ReadOf(function_id), WriteOf(function_id),
                      ControllerOf(function_id), disk, args)} :
    /\ disk' = r.disk
    /\ last' = [kind |-> "call", function_id |-> function_id, a |-> args["a"],
                outcome |-> r.outcome, ret |-> r.ret, invoked |-> r.invoked,
                ops |-> r.ops]
    /\ UNCHANGED <<ctl_vars, job, lock, hashes>>

InitGlobal ==
    /\ env_enabled = FALSE
    /\ env_disabled = FALSE
    /\ glob = [read |-> "None", write |-> "None"]
    /\ glob_scopes = <<>>
    /\ ctl = UnsetCtl
    /\ ctl_scopes = <<>>
    /\ disk = [k \in BackendKeys |-> NoEntry]
    /\ last = NoGlobalCall
    /\ job = <<>>
    /\ lock = <<>>
    /\ hashes = <<>>

NextGlobal ==
    \/ /\ Len(glob_scopes) < MaxGlobalNest
       /\ \E r \in Bools, w \in Bools : GlobalEnable(r, w)
    \/ GlobalExit
    \/ /\ Len(ctl_scopes) < MaxScopes
       /\ \E r \in Bools, w \in Bools : CtlEnable(r, w, "None")
    \/ CtlExit
    \/ \E d \in BOOLEAN : SetEnv(FALSE, d)
    \/ \E function_id \in BackendFunctionIds, args \in AllArgs :
          args["_p"] = 0 /\ CallOf(function_id, args)

SpecGlobal == InitGlobal /\ [][NextGlobal]_vars

-----------------------------------------------------------------------------
(* core.py: one call of the cacheable function made by one thread while      *)
(* another thread enters and leaves scopes of the same controller.  job is   *)
(* the call in progress: the flags __call__ read at its start, where it is,  *)
(* the cache operations it has performed (ops), what it returns.             *)

IdleCall == [phase |-> "idle", a |-> 0, read |-> "None", write |-> "None",
             ops |-> {}, invoked |-> 0, outcome |-> "none", ret |-> 0]

\* the key of the call in progress
JobKey == get_input_key_from_args(("a" :> job.a) @@ ("_p" :> 0))

\* lines 118-123 and 126: the flags are read, the key is derived
CallBegin(a) ==
    /\ job.phase \in {"idle", "done"}
    /\ job' = [IdleCall EXCEPT !.phase = IF ReadNow = "True" THEN "read" ELSE "execute",
                               !.a = a, !.read = ReadNow, !.write = WriteNow]
    /\ UNCHANGED <<ctl_vars, disk, last, lock, hashes>>

\* lines 135-148: cache.exists, _load (which asks the controller again) and
\* the filter of the controller as it is now
CallLoad ==
    /\ job.phase = "read"
    /\ \E r \in {load_output(ReadNow, disk, JobKey)} :
       IF ~exists(disk[JobKey])
       THEN /\ job' = [job EXCEPT !.phase = "execute", !.ops = @ \cup {"exists"}]
            /\ disk' = disk
       ELSE /\ disk' = r.disk
            /\ IF r.raised # "none"
               THEN job' = [job EXCEPT !.phase = "execute",
                               !.ops = @ \cup (IF r.cause = "CacheNotEnabledError"
                                               THEN {"exists"} ELSE {"exists", "load"})]
               ELSE IF is_passing_filter(ctl, r.ret) = "pass"
               THEN job' = [job EXCEPT !.phase = "done", !.outcome = "return",
                               !.ret = r.ret, !.ops = @ \cup {"exists", "load"}]
               ELSE IF is_passing_filter(ctl, r.ret) = "reject"
               THEN job' = [job EXCEPT !.phase = "execute",
                                       !.ops = @ \cup {"exists", "load"}]
               ELSE job' = [job EXCEPT !.phase = "done", !.outcome = "raise",
                                       !.ops = @ \cup {"exists", "load"}]
    /\ UNCHANGED <<ctl_vars, last, lock, hashes>>

\* lines 150-151: the wrapped function runs
CallExecute ==
    /\ job.phase = "execute"
    /\ job' = [job EXCEPT !.phase = IF job.write = "True" THEN "write" ELSE "done",
                          !.invoked = 1, !.outcome = "return",
                          !.ret = Fn(("a" :> job.a) @@ ("_p" :> 0))]
    /\ UNCHANGED <<ctl_vars, disk, last, lock, hashes>>

\* lines 153-161: _dump (which asks the controller again); a DumpException
\* is warned about
CallDump ==
    /\ job.phase = "write"
    /\ \E r \in {dump_output(WriteNow, disk, JobKey, job.ret)} :
       /\ disk' = r.disk
       /\ job' = [job EXCEPT !.phase = "done",
                             !.ops = @ \cup (IF r.cause = "CacheNotEnabledError"
                                             THEN {} ELSE {"dump"})]
    /\ UNCHANGED <<ctl_vars, last, lock, hashes>>

InitThreads ==
    /\ env_enabled = FALSE
    /\ env_disabled = FALSE
    /\ glob = [read |-> "None", write |-> "None"]
    /\ glob_scopes = <<>>
    /\ ctl = [read |-> "None", write |-> "None", filter |-> "None"]
    /\ ctl_scopes = <<>>
    /\ disk = [k \in InputKeys |-> NoEntry]
    /\ last = NoCall
    /\ job = IdleCall
    /\ lock = <<>>
    /\ hashes = <<>>

NextThreads ==
    \/ /\ Len(ctl_scopes) < MaxScopes
       /\ \E r \in Bools, w \in Bools, f \in Filters : CtlEnable(r, w, f)
    \/ CtlExit
    \/ \E a \in ArgVals : CallBegin(a)
    \/ CallLoad
    \/ CallExecute
    \/ CallDump

SpecThreads == InitThreads /\ [][NextThreads]_vars

-----------------------------------------------------------------------------
(* controllers.py: the scope objects.  enable() is called first and the      *)
(* context manager it returns is entered afterwards, or never.  In this     *)
(* model ctl_scopes and glob_scopes hold the scope objects that exist: what  *)
(* was asked for, the previous state the call captured, the rank at which    *)
(* the object was entered (0: not entered) and the state found on entry.     *)

\* the rank given to the object entered next
NextRank(scopes) ==
    1 + Cardinality({i \in 1 .. Len(scopes) : scopes[i].entered > 0})

\* the object entered last and not yet left
Innermost(scopes, i) ==
    /\ i \in 1 .. Len(scopes)
    /\ scopes[i].entered > 0
    /\ \A j \in 1 .. Len(scopes) : scopes[j].entered <= scopes[i].entered

Without(scopes, i) == SubSeq(scopes, 1, i - 1) \o SubSeq(scopes, i + 1, Len(scopes))

\* controller.enable(read, write, filter) is called: lines 20-25 run now,
\* the context manager is made and returned
EnableCalled(read, write, filter) ==
    /\ ctl' = enable_state(ctl, read, write, filter)
    /\ ctl_scopes' = Append(ctl_scopes,
                            [previous |-> ctl, read |-> read, write |-> write,
                             filter |-> filter, entered |-> 0, at_entry |-> ctl])
    /\ UNCHANGED <<env_enabled, env_disabled, glob, glob_scopes, disk, last, job,
                   lock, hashes>>

\* with scope: the generator of the context manager runs up to its yield
ScopeEnter(i) ==
    /\ i \in 1 .. Len(ctl_scopes)
    /\ ctl_scopes[i].entered = 0
    /\ ctl_scopes' = [ctl_scopes EXCEPT ![i].entered = NextRank(ctl_scopes),
                                        ![i].at_entry = ctl]
    /\ UNCHANGED <<env_enabled, env_disabled, glob, glob_scopes, ctl, disk, last, job,
                   lock, hashes>>

\* the with block of the innermost entered object ends: the finally block
ScopeExit(i) ==
    /\ Innermost(ctl_scopes, i)
    /\ ctl' = restore_state(ctl, ctl_scopes[i])
    /\ ctl_scopes' = Without(ctl_scopes, i)
    /\ UNCHANGED <<env_enabled, env_disabled, glob, glob_scopes, disk, last, job,
                   lock, hashes>>

\* a scope object that was never entered is dropped: its generator never ran
ScopeDrop(i) ==
    /\ i \in 1 .. Len(ctl_scopes)
    /\ ctl_scopes[i].entered = 0
    /\ ctl_scopes' = Without(ctl_scopes, i)
    /\ UNCHANGED <<env_enabled, env_disabled, glob, glob_scopes, ctl, disk, last, job,
                   lock, hashes>>

\* enable_all_caches(read, write) is called: lines 77-78 run now
GlobalEnableCalled(read, write) ==
    /\ glob' = Global_enable_state(glob, read, write)
    /\ glob_scopes' = Append(glob_scopes,
                             [previous |-> glob, read |-> read, write |-> write,
                              entered |-> 0, at_entry |-> glob])
    /\ UNCHANGED <<env_enabled, env_disabled, ctl, ctl_scopes, disk, last, job, lock,
                   hashes>>

GlobalScopeEnter(i) ==
    /\ i \in 1 .. Len(glob_scopes)
    /\ glob_scopes[i].entered = 0
    /\ glob_scopes' = [glob_scopes EXCEPT ![i].entered = NextRank(glob_scopes),
                                          ![i].at_entry = glob]
    /\ UNCHANGED <<env_enabled, env_disabled, glob, ctl, ctl_scopes, disk, last, job,
                   lock, hashes>>

GlobalScopeExit(i) ==
    /\ Innermost(glob_scopes, i)
    /\ glob' = Global_restore_state(glob, glob_scopes[i])
    /\ glob_scopes' = Without(glob_scopes, i)
    /\ UNCHANGED <<env_enabled, env_disabled, ctl, ctl_scopes, disk, last, job, lock,
                   hashes>>

GlobalScopeDrop(i) ==
    /\ i \in 1 .. Len(glob_scopes)
    /\ glob_scopes[i].entered = 0
    /\ glob_scopes' = Without(glob_scopes, i)
    /\ UNCHANGED <<env_enabled, env_disabled, glob, ctl, ctl_scopes, disk, last, job,
                   lock, hashes>>

\* scope objects of one controller in existence at a time
MaxObjects == 2
ScopeIds == 1 .. MaxObjects

\* what the callers ask for: enable(), disable(), and a read-only scope with
\* a filter of its own
ScopeRequests ==
    {<<"True", "True", "accept">>, <<"False", "False", "accept">>,
     <<"True", "False", "reject">>}

InitScopes == Init

NextScopes ==
    \/ /\ Len(ctl_scopes) < MaxObjects
       /\ \E request \in ScopeRequests :
             EnableCalled(request[1], request[2], request[3])
    \/ \E i \in ScopeIds : ScopeEnter(i)
    \/ \E i \in ScopeIds : ScopeExit(i)
    \/ \E i \in ScopeIds : ScopeDrop(i)
    \/ /\ Len(glob_scopes) < MaxGlobalNest
       /\ \E r \in Bools : GlobalEnableCalled(r, r)
    \/ \E i \in ScopeIds : GlobalScopeEnter(i)
    \/ \E i \in ScopeIds : GlobalScopeExit(i)
    \/ \E i \in ScopeIds : GlobalScopeDrop(i)

SpecScopes == InitScopes /\ [][NextScopes]_vars

-----------------------------------------------------------------------------
(* The call model with the injected failure on record: one function under   *)
(* its own controller, every call foo(a, 0) made with at most one failure,  *)
(* which last remembers by name.                                            *)

NoNotedCall ==
    [kind |-> "none", a |-> 0, fault |-> "none", read |-> "None", write |-> "None",
     outcome |-> "none", ret |-> 0, invoked |-> 0, ops |-> {}]

\* one call foo(a, 0) with the failure fault injected
CallNoting(args, fault) ==
    \E r \in {call(ReadNow, WriteNow, ctl, disk, args, fault)} :
    /\ disk' = r.disk
    /\ last' = [kind |-> "call", a |-> args["a"], fault |-> fault,
                read |-> ReadNow, write |-> WriteNow,
                outcome |-> r.outcome, ret |-> r.ret, invoked |-> r.invoked,
                ops |-> r.ops]
    /\ UNCHANGED <<ctl_vars, job, lock, hashes>>

InitFaults ==
    /\ env_enabled = FALSE
    /\ env_disabled = FALSE
    /\ glob = [read |-> "None", write |-> "None"]
    /\ glob_scopes = <<>>
    /\ ctl = [read |-> "None", write |-> "None", filter |-> "None"]
    /\ ctl_scopes = <<>>
    /\ disk = [k \in InputKeys |-> NoEntry]
    /\ last = NoNotedCall
    /\ job = <<>>
    /\ lock = <<>>
    /\ hashes = <<>>

NextFaults ==
    \/ /\ Len(ctl_scopes) < MaxScopes
       /\ \E r \in Bools, w \in Bools, f \in Filters : CtlEnable(r, w, f)
    \/ CtlExit
    \/ \E args \in AllArgs, fault \in Faults :
          \* failures are injected into the calls foo(1, 0) only
          /\ args["_p"] = 0
          /\ args["a"] = 1 \/ fault = "none"
          /\ CallNoting(args, fault)

SpecFaults == InitFaults /\ [][NextFaults]_vars

-----------------------------------------------------------------------------
(* backends/disk.py (DiskBackend.write_output) and the _write_to_cache of    *)
(* the first core.py: the staged write of one output directory.  In this    *)
(* model disk is the destination directory, [dir, files], and job the one   *)
(* writer: the staged files, the step it is at, what it still has to        *)
(* unlink or copy.                                                          *)

\* the files a serializer dumps for one output ("arbitrary files can go here")
StagedNames == {"part1", "part2"}
\* the outputs written, one after the other
StagedOutputs == {1, 2}
\* Serializer.dump writes its files, writes none, or raises
DumpBehaviours == {"files", "noop", "raise"}

NoFiles == [f \in {} |-> 0]
NoDestination == [dir |-> FALSE, files |-> NoFiles]

\* serializer.dump(output, tmp_path): the content of the temporary directory
serializer_dump(output, behaviour) ==
    IF behaviour = "files" THEN [f \in StagedNames |-> output] ELSE NoFiles

\* previous is the destination as write_output found it
IdleWriter == [phase |-> "idle", output |-> 0, behaviour |-> "none", tmp |-> NoFiles,
               todo |-> {}, result |-> "none", previous |-> NoDestination]

WriterDone(result) ==
    [job EXCEPT !.phase = "done", !.result = result, !.tmp = NoFiles, !.todo = {}]

\* write_output(output, input_key) is called: the temporary directory is made
StartStagedWrite(output, behaviour) ==
    /\ job.phase \in {"idle", "done"}
    /\ job' = [IdleWriter EXCEPT !.phase = "dump", !.output = output,
                                 !.behaviour = behaviour, !.previous = disk]
    /\ UNCHANGED <<ctl_vars, disk, last, lock, hashes>>

\* serializer.dump into the temporary directory, and the three asserts; an
\* exception or an empty directory ends the call with DumpException
StageAndVerify ==
    /\ job.phase = "dump"
    /\ IF job.behaviour = "raise" \/ serializer_dump(job.output, job.behaviour) = NoFiles
       THEN job' = WriterDone("DumpException")
       ELSE job' = [job EXCEPT !.phase = "replace",
                               !.tmp = serializer_dump(job.output, job.behaviour)]
    /\ UNCHANGED <<ctl_vars, disk, last, lock, hashes>>

\* if output_path.exists() and output_path.is_dir(): shutil.rmtree lists it
StagedRmtreeScan ==
    /\ job.phase = "replace"
    /\ IF disk.dir
       THEN job' = [job EXCEPT !.phase = "rmtree", !.todo = DOMAIN disk.files]
       ELSE job' = [job EXCEPT !.phase = "mkdir"]
    /\ UNCHANGED <<ctl_vars, disk, last, lock, hashes>>

\* shutil.rmtree(output_path): unlink one of the listed files
StagedRmtreeUnlink(f) ==
    /\ job.phase = "rmtree"
    /\ f \in job.todo
    /\ disk' = [disk EXCEPT !.files = [g \in DOMAIN disk.files \ {f} |-> disk.files[g]]]
    /\ job' = [job EXCEPT !.todo = @ \ {f}]
    /\ UNCHANGED <<ctl_vars, last, lock, hashes>>

\* shutil.rmtree(output_path), last step: remove the directory
StagedRmtreeRmdir ==
    /\ job.phase = "rmtree"
    /\ job.todo = {}
    /\ disk' = NoDestination
    /\ job' = [job EXCEPT !.phase = "mkdir"]
    /\ UNCHANGED <<ctl_vars, last, lock, hashes>>

\* shutil.copytree(tmp_path, output_path): os.makedirs(output_path)
CopytreeMkdir ==
    /\ job.phase = "mkdir"
    /\ disk' = [dir |-> TRUE, files |-> NoFiles]
    /\ job' = [job EXCEPT !.phase = "copy", !.todo = DOMAIN job.tmp]
    /\ UNCHANGED <<ctl_vars, last, lock, hashes>>

\* shutil.copytree: copy one staged file
CopytreeCopy(f) ==
    /\ job.phase = "copy"
    /\ f \in job.todo
    /\ disk' = [disk EXCEPT !.files = (f :> job.tmp[f]) @@ disk.files]
    /\ job' = [job EXCEPT !.todo = @ \ {f}]
    /\ UNCHANGED <<ctl_vars, last, lock, hashes>>

\* copytree has returned: the temporary directory is removed, the call returns
StagedWriteReturn ==
    /\ job.phase = "copy"
    /\ job.todo = {}
    /\ job' = WriterDone("ok")
    /\ UNCHANGED <<ctl_vars, disk, last, lock, hashes>>

\* the process is killed in the middle of the call
KillWriter ==
    /\ job.phase \in {"dump", "replace", "rmtree", "mkdir", "copy"}
    /\ job' = WriterDone("killed")
    /\ UNCHANGED <<ctl_vars, disk, last, lock, hashes>>

InitStaged ==
    /\ env_enabled = FALSE
    /\ env_disabled = FALSE
    /\ glob = [read |-> "None", write |-> "None"]
    /\ glob_scopes = <<>>
    /\ ctl = [read |-> "None", write |-> "None", filter |-> "None"]
    /\ ctl_scopes = <<>>
    /\ disk \in {NoDestination} \cup
               {[dir |-> TRUE, files |-> serializer_dump(output, "files")] :
                   output \in StagedOutputs}
    /\ last = NoCall
    /\ job = IdleWriter
    /\ lock = <<>>
    /\ hashes = <<>>

NextStaged ==
    \/ \E output \in StagedOutputs, behaviour \in DumpBehaviours :
          StartStagedWrite(output, behaviour)
    \/ StageAndVerify
    \/ StagedRmtreeScan
    \/ \E f \in StagedNames : StagedRmtreeUnlink(f)
    \/ StagedRmtreeRmdir
    \/ CopytreeMkdir
    \/ \E f \in StagedNames : CopytreeCopy(f)
    \/ StagedWriteReturn
    \/ KillWriter

SpecStaged == InitStaged /\ [][NextStaged]_vars

-----------------------------------------------------------------------------
(* The first cacheables/core.py (and cacheable/core.py): every instance     *)
(* keeps its own flags _read and _write, and the module-level enable_cache  *)
(* enters enable_cache of every instance.  In this model ctl maps each      *)
(* instance to its flags, ctl_scopes is the stack of scopes entered, with   *)
(* the flags asked for and the flags found, and disk maps each instance     *)
(* and argument to the stored result (0: the path does not exist).          *)

LegacyInstances == {"foo", "bar"}

UnsetFlags == [read |-> "None", write |-> "None"]

\* `flag and previous`, on Python booleans
PyAnd(flag, previous) == IF flag = "True" THEN previous ELSE flag

\* mutant of Legacy_enable_flags: the flags asked for replace the previous ones
Legacy_enable_flags_Override(flags, read, write) ==
    [read |-> read, write |-> write]

\* the flags enable_cache(read, write) installs on an instance with the given
\* previous flags: "most restrictive settings will be used"
Legacy_enable_flags(flags, read, write) ==
    [read |-> IF flags.read # "None" THEN PyAnd(read, flags.read) ELSE read,
     write |-> IF flags.write # "None" THEN PyAnd(write, flags.write) ELSE write]

\* with instance.enable_cache(read, write): entered; disable_cache() is
\* enable_cache(read=False, write=False)
Legacy_enable_cache(f, read, write) ==
    /\ ctl' = [ctl EXCEPT ![f] = Legacy_enable_flags(ctl[f], read, write)]
    /\ ctl_scopes' = Append(ctl_scopes,
                            [who |-> {f}, read |-> read, write |-> write,
                             previous |-> ctl])
    /\ UNCHANGED <<env_enabled, env_disabled, glob, glob_scopes, disk, last, job,
                   lock, hashes>>

\* with enable_cache(read, write): of the module entered: the ExitStack
\* enters enable_cache of every instance
Legacy_enable_cache_all(read, write) ==
    /\ ctl' = [f \in LegacyInstances |-> Legacy_enable_flags(ctl[f], read, write)]
    /\ ctl_scopes' = Append(ctl_scopes,
                            [who |-> LegacyInstances, read |-> read, write |-> write,
                             previous |-> ctl])
    /\ UNCHANGED <<env_enabled, env_disabled, glob, glob_scopes, disk, last, job,
                   lock, hashes>>

\* the innermost scope is left: finally: self._read, self._write = previous
Legacy_exit ==
    /\ ctl_scopes # <<>>
    /\ LET scope == ctl_scopes[Len(ctl_scopes)] IN
       ctl' = [f \in LegacyInstances |->
                 IF f \in scope.who THEN scope.previous[f] ELSE ctl[f]]
    /\ ctl_scopes' = SubSeq(ctl_scopes, 1, Len(ctl_scopes) - 1)
    /\ UNCHANGED <<env_enabled, env_disabled, glob, glob_scopes, disk, last, job,
                   lock, hashes>>

\* CacheableFunction.__call__ of the first core.py on instance f
Legacy_call(flags, disabled, stored, a) ==
    LET result == Fn(("a" :> a) @@ ("_p" :> 0))
        executed == [ret |-> result, invoked |-> 1, ops |-> {}, stored |-> stored]
    IN  IF disabled THEN executed
        ELSE IF flags.read = "True" /\ stored # 0
        THEN [ret |-> stored, invoked |-> 0, ops |-> {"load"}, stored |-> stored]
        ELSE IF flags.write = "True"
        THEN [executed EXCEPT !.ops = {"dump"}, !.stored = result]
        ELSE executed

NoLegacyCall == [kind |-> "none", f |-> "none", a |-> 0, ret |-> 0, invoked |-> 0,
                 ops |-> {}]

\* one call f(a)
LegacyCall(f, a) ==
    \E r \in {Legacy_call(ctl[f], env_disabled, disk[f][a], a)} :
    /\ disk' = [disk EXCEPT ![f][a] = r.stored]
    /\ last' = [kind |-> "call", f |-> f, a |-> a, ret |-> r.ret,
                invoked |-> r.invoked, ops |-> r.ops]
    /\ UNCHANGED <<ctl_vars, job, lock, hashes>>

InitLegacy ==
    /\ env_enabled = FALSE
    /\ env_disabled = FALSE
    /\ glob = [read |-> "None", write |-> "None"]
    /\ glob_scopes = <<>>
    /\ ctl = [f \in LegacyInstances |-> UnsetFlags]
    /\ ctl_scopes = <<>>
    /\ disk = [f \in LegacyInstances |-> [a \in ArgVals |-> 0]]
    /\ last = NoLegacyCall
    /\ job = <<>>
    /\ lock = <<>>
    /\ hashes = <<>>

NextLegacy ==
    \/ /\ Len(ctl_scopes) < MaxNest
       /\ \E f \in LegacyInstances, r \in Bools, w \in Bools : Legacy_enable_cache(f, r, w)
    \/ /\ Len(ctl_scopes) < MaxNest
       /\ \E r \in Bools, w \in Bools : Legacy_enable_cache_all(r, w)
    \/ Legacy_exit
    \/ \E d \in BOOLEAN : SetEnv(FALSE, d)
    \/ \E f \in LegacyInstances, a \in ArgVals : LegacyCall(f, a)

SpecLegacy == InitLegacy /\ [][NextLegacy]_vars

-----------------------------------------------------------------------------
(* asyncio/core.py next to core.py: the same function wrapped once by        *)
(* CacheableFunction and once by AsyncCacheableFunction, each variant with   *)
(* a cache of its own, called with the same arguments under the same scopes. *)
(* In this model disk maps each variant to its entries.                      *)

Variants == {"sync", "async"}

\* AsyncCacheableFunction.__call__: result = await self._fn(*args, **kwargs)
async_call(d, args) ==
    [outcome |-> "return", ret |-> Fn(args), invoked |-> 1, ops |-> {},
     stored |-> FALSE, disk |-> d]

NoPairCall == [kind |-> "none", a |-> 0, sync |-> [ret |-> 0, invoked |-> 0],
               async |-> [ret |-> 0, invoked |-> 0]]

\* foo(a, 0) is called on the synchronous variant and awaited on the
\* asynchronous one
CallBoth(args) ==
    \E rs \in {call(ReadNow, WriteNow, ctl, disk["sync"], args, "none")},
       ra \in {async_call(disk["async"], args)} :
    /\ disk' = [disk EXCEPT !["sync"] = rs.disk, !["async"] = ra.disk]
    /\ last' = [kind |-> "call", a |-> args["a"],
                sync |-> [ret |-> rs.ret, invoked |-> rs.invoked],
                async |-> [ret |-> ra.ret, invoked |-> ra.invoked]]
    /\ UNCHANGED <<ctl_vars, job, lock, hashes>>

InitAsync ==
    /\ env_enabled = FALSE
    /\ env_disabled = FALSE
    /\ glob = [read |-> "None", write |-> "None"]
    /\ glob_scopes = <<>>
    /\ ctl = [read |-> "None", write |-> "None", filter |-> "None"]
    /\ ctl_scopes = <<>>
    /\ disk = [v \in Variants |-> [k \in InputKeys |-> NoEntry]]
    /\ last = NoPairCall
    /\ job = <<>>
    /\ lock = <<>>
    /\ hashes = <<>>

NextAsync ==
    \/ /\ Len(ctl_scopes) < MaxScopes
       /\ \E r \in Bools, w \in Bools, f \in Filters : CtlEnable(r, w, f)
    \/ CtlExit
    \/ \E args \in AllArgs : args["_p"] = 0 /\ CallBoth(args)

SpecAsync == InitAsync /\ [][NextAsync]_vars

-----------------------------------------------------------------------------
(* controllers.py: the scopes of one controller opened by several threads.   *)
(* Every thread runs "with controller.enable(...):" blocks one after the     *)
(* other; the blocks of different threads overlap in any order.  job[t] is   *)
(* the block of thread t: whether it is inside, and the previous state its   *)
(* enable() call captured.  last is the state of the controller found by     *)
(* the enable() call made while no block was open.                           *)

Threads == Procs

OutOfScope == [phase |-> "out", previous |-> [read |-> "None", write |-> "None",
                                              filter |-> "None"]]

NoBaseline == [kind |-> "none", state |-> [read |-> "None", write |-> "None",
                                           filter |-> "None"]]

AllOut == \A t \in Threads : job[t].phase = "out"

\* thread t reaches its with statement: enable() runs lines 20-25, then the
\* generator runs up to its yield
ThreadOpen(t, read, write, filter) ==
    /\ job[t].phase = "out"
    /\ ctl' = enable_state(ctl, read, write, filter)
    /\ job' = [job EXCEPT ![t] = [phase |-> "in", previous |-> ctl]]
    /\ last' = IF AllOut THEN [kind |-> "baseline", state |-> ctl] ELSE last
    /\ UNCHANGED <<env_enabled, env_disabled, glob, glob_scopes, ctl_scopes, disk,
                   lock, hashes>>

\* the with block of thread t ends: the finally block, lines 31-34
ThreadClose(t) ==
    /\ job[t].phase = "in"
    /\ ctl' = restore_state(ctl, job[t])
    /\ job' = [job EXCEPT ![t] = OutOfScope]
    /\ UNCHANGED <<env_enabled, env_disabled, glob, glob_scopes, ctl_scopes, disk,
                   last, lock, hashes>>

InitOverlap ==
    /\ env_enabled = FALSE
    /\ env_disabled = FALSE
    /\ glob = [read |-> "None", write |-> "None"]
    /\ glob_scopes = <<>>
    /\ ctl = [read |-> "None", write |-> "None", filter |-> "None"]
    /\ ctl_scopes = <<>>
    /\ disk = [k \in InputKeys |-> NoEntry]
    /\ last = NoBaseline
    /\ job = [t \in Threads |-> OutOfScope]
    /\ lock = <<>>
    /\ hashes = <<>>

NextOverlap ==
    \E t \in Threads :
        \/ \E request \in ScopeRequests :
              ThreadOpen(t, request[1], request[2], request[3])
        \/ ThreadClose(t)

SpecOverlap == InitOverlap /\ [][NextOverlap]_vars

-----------------------------------------------------------------------------
(* core.py and caches/disk.py: one call of the cacheable function made by    *)
(* process Caller, step by step through the lock-guarded methods of the      *)
(* disk cache, while the other processes evict entries.  CACHEABLES_ENABLED  *)
(* is set, the entries hold the outputs of earlier calls.  last is the call: *)
(* where it is, whether __call__ found the entry (found), whether an evict   *)
(* of its entry had completed when its load ended (evicted), what it did.    *)

Caller == 1

NoRacingCall == [phase |-> "idle", a |-> 0, found |-> FALSE, evicted |-> FALSE,
                 invoked |-> 0, outcome |-> "none", ret |-> 0]

CallArgs(a) == ("a" :> a) @@ ("_p" :> 0)
CallKey(a) == get_input_key_from_args(CallArgs(a))

\* some other process has completed an evict of key
EvictCompleted(key) ==
    \E q \in Procs \ {Caller} : /\ job[q].op = "evict"
                                /\ job[q].key = key
                                /\ job[q].phase = "done"

\* lines 118-136: the flags are read, the key is derived, cache.exists
RacingCallBegin(a) ==
    /\ last.phase = "idle"
    /\ ReadNow = "True"
    /\ last' = [NoRacingCall EXCEPT
                  !.a = a,
                  !.found = exists(disk[CallKey(a)]),
                  !.phase = IF exists(disk[CallKey(a)]) THEN "load" ELSE "execute"]
    /\ UNCHANGED <<ctl_vars, disk, job, lock, hashes>>

\* _load, lines 166-170: is_read_enabled, cache.exists, then into cache.read;
\* InputKeyNotFoundError becomes a LoadException, which __call__ warns about
RacingLoadBegin ==
    /\ last.phase = "load"
    /\ IF ReadNow = "True" /\ exists(disk[CallKey(last.a)])
       THEN /\ job' = [job EXCEPT ![Caller] =
                         [IdleJob EXCEPT !.op = "read", !.key = CallKey(last.a),
                                         !.i = 1, !.phase = "wait"]]
            /\ last' = [last EXCEPT !.phase = "read"]
       ELSE /\ job' = job
            /\ last' = [last EXCEPT !.phase = "execute",
                                    !.evicted = EvictCompleted(CallKey(last.a))]
    /\ UNCHANGED <<ctl_vars, disk, lock, hashes>>

\* mutant of AfterCacheCall: the LoadException leaves __call__
AfterCacheCall_LoadRaises(c, j, evicted) ==
    IF j.phase # "done" THEN c
    ELSE IF c.phase = "write" THEN [c EXCEPT !.phase = "done"]
    ELSE IF j.result = "ok" /\ deserialize(j.ret).ok
    THEN [c EXCEPT !.phase = "done", !.outcome = "return",
                   !.ret = deserialize(j.ret).value, !.evicted = evicted]
    ELSE [c EXCEPT !.phase = "done", !.outcome = "raise", !.evicted = evicted]

\* what the call does when cache.read (phase "read") or cache.write (phase
\* "write") has ended in j: _load deserializes and __call__ returns the
\* output (no filter is set), or the LoadException is warned about and the
\* function is to run; a DumpException is warned about
AfterCacheCall(c, j, evicted) ==
    IF j.phase # "done" THEN c
    ELSE IF c.phase = "write" THEN [c EXCEPT !.phase = "done"]
    ELSE IF j.result = "ok" /\ deserialize(j.ret).ok
    THEN [c EXCEPT !.phase = "done", !.outcome = "return",
                   !.ret = deserialize(j.ret).value, !.evicted = evicted]
    ELSE [c EXCEPT !.phase = "execute", !.evicted = evicted]

\* one lock-guarded method of the caller's cache.read or cache.write
RacingExec ==
    /\ last.phase \in {"read", "write"}
    /\ ExecBody(Caller)
    /\ last' = AfterCacheCall(last, job'[Caller], EvictCompleted(job[Caller].key))

\* lines 150-155: the wrapped function runs; CACHEABLES_ENABLED enables the
\* writes, so _dump serializes the output and enters cache.write
RacingExecute ==
    /\ last.phase = "execute"
    /\ WriteNow = "True"
    /\ last' = [last EXCEPT !.phase = "write", !.invoked = 1, !.outcome = "return",
                            !.ret = Fn(CallArgs(last.a))]
    /\ job' = [job EXCEPT ![Caller] =
                 [IdleJob EXCEPT
                    !.op = "write", !.key = CallKey(last.a),
                    !.bytes = serialize(Fn(CallArgs(last.a))),
                    !.held = <<create_metadata(
                                 CallKey(last.a).input_id,
                                 get_output_id_from_bytes(serialize(Fn(CallArgs(last.a)))))>>,
                    !.i = 1, !.phase = "scan"]]
    /\ UNCHANGED <<ctl_vars, disk, lock, hashes>>

\* the steps of the rmtree of process p, which leave the call where it is
RacingRmtree(p) ==
    \/ RmtreeScan(p)
    \/ \E f \in job[p].todo : RmtreeUnlink(p, f)
    \/ RmtreeRmdir(p)

InitMiss ==
    /\ env_enabled = TRUE
    /\ env_disabled = FALSE
    /\ glob = [read |-> "None", write |-> "None"]
    /\ glob_scopes = <<>>
    /\ ctl = [read |-> "None", write |-> "None", filter |-> "None"]
    /\ ctl_scopes = <<>>
    /\ disk \in {[k \in InputKeys |-> NoEntry],
                 [k \in InputKeys |->
                    IF \E a \in ArgVals : CallKey(a) = k
                    THEN Dump([x \in InputKeys |-> NoEntry], k,
                              Fn(CallArgs(CHOOSE a \in ArgVals : CallKey(a) = k)),
                              "none").disk[k]
                    ELSE NoEntry]}
    /\ last = NoRacingCall
    /\ job = [p \in Procs |-> IdleJob]
    /\ lock = [l \in LockPaths |-> {}]
    /\ hashes = <<>>

NextMiss ==
    \/ \E a \in ArgVals : RacingCallBegin(a)
    \/ RacingLoadBegin
    \/ RacingExec
    \/ RacingExecute
    \/ Acquire(Caller)
    \/ RacingRmtree(Caller)
    \/ \E p \in Procs \ {Caller} :
          \/ \E key \in InputKeys : job[p].phase = "idle" /\ StartEvict(p, key)
          \/ RacingRmtree(p)

SpecMiss == InitMiss /\ [][NextMiss]_vars

-----------------------------------------------------------------------------
(* Properties of the call model *)

\* a call's arguments as far as the key and the result depend on them
ArgsOf(a) == ("a" :> a) @@ ("_p" :> 0)
KeyOf(a) == get_input_key_from_args(ArgsOf(a))

\* the step is one call of the cacheable function, recorded in last'
IsCallStep == last'.kind = "call" /\ UNCHANGED ctl_vars

\* the entry has metadata that names a present output file holding bytes
\* the serializer can decode
Loadable(entry) ==
    /\ exists(entry)
    /\ read_output(entry, entry.meta[1]).ok
    /\ deserialize(read_output(entry, entry.meta[1]).bytes).ok
StoredValue(entry) ==
    deserialize(read_output(entry, entry.meta[1]).bytes).value

\* the filter in force lets a loaded value through
PassingFilter == ctl.filter \in {"None", "accept"}

\* C1: a call made while read resolves True, for which an entry exists, loads
\* (no failure injected) and passes the filter, returns the stored value and
\* does not run the wrapped function; and a call that ran the function and
\* wrote its output, followed by a call with the same arguments with read
\* enabled, runs the function once in total.
C1_CacheHitSkipsRecomputation ==
    [][IsCallStep =>
         /\ (/\ ~last'.faulty
             /\ ReadNow = "True"
             /\ Loadable(disk[KeyOf(last'.a)])
             /\ PassingFilter)
            => /\ last'.outcome = "return"
               /\ last'.invoked = 0
               /\ last'.ret = StoredValue(disk[KeyOf(last'.a)])
         /\ (/\ last.kind = "call" /\ ~last.faulty /\ last.outcome = "return"
             /\ "dump" \in last.ops
             /\ last'.a = last.a
             /\ ~last'.faulty
             /\ ReadNow = "True"
             /\ PassingFilter)
            => last.invoked + last'.invoked = 1
      ]_vars

\* C1 witness: a second call foo(a, ..) right after a writing call with the
\* same argument was served from the cache
C1_Witness ==
    /\ last.kind = "call" /\ ~last.faulty
    /\ last.outcome = "return" /\ last.invoked = 0
    /\ last.ops = {"exists", "load"}
    /\ last.ret = Fn(ArgsOf(last.a))
    /\ ReadNow = "True"

\* C2: every call returns exactly fn(args), whatever scopes, evictions and
\* injected backend or serializer failures came before or happen in it.
C2_CachingIsTransparent ==
    last.kind = "call" =>
        /\ last.outcome = "return"
        /\ last.ret = Fn(ArgsOf(last.a))

\* C3: a call during which key derivation, the existence check, the backend
\* read, deserialization, the filter, serialization or the backend write
\* fails still returns the wrapped function's output and raises nothing.
C3_NoCachingFailureReachesCaller ==
    [][(IsCallStep /\ (last'.faulty \/ ctl.filter = "raise")) =>
         /\ last'.outcome = "return"
         /\ last'.ret = Fn(ArgsOf(last'.a))
      ]_vars

\* C10: while CACHEABLES_DISABLED is asserted, read and write resolve to
\* False whatever the global and per-function settings are, a warning is
\* raised when CACHEABLES_ENABLED is asserted too, and every call runs the
\* wrapped function without any cache operation and leaves the disk alone.
C10_EnvDisableWins ==
    [][env_disabled =>
         /\ ReadNow = "False"
         /\ WriteNow = "False"
         /\ (env_enabled => env_var_enabled(env_enabled, env_disabled).warned)
         /\ IsCallStep =>
              /\ last'.outcome = "return"
              /\ last'.invoked = 1
              /\ last'.ops = {}
              /\ disk' = disk
      ]_vars

\* C10 witness: inside an enable scope, with the entry of foo(a) on disk and
\* the environment forcing caches off, the last call ran the function and
\* touched no cache operation
C10_Witness ==
    /\ env_disabled
    /\ Len(ctl_scopes) = 1 /\ ctl.read = "True" /\ ctl.write = "True"
    /\ last.kind = "call" /\ last.invoked = 1 /\ last.ops = {}
    /\ Loadable(disk[KeyOf(last.a)])

-----------------------------------------------------------------------------
(* Properties of the controller model *)

\* the first of False, True, None that occurs among the three levels
Resolve(e, g, c) ==
    IF "False" \in {e, g, c} THEN "False"
    ELSE IF "True" \in {e, g, c} THEN "True"
    ELSE "None"

EnvValue == env_var_enabled(env_enabled, env_disabled).value

\* C8: for every combination of the environment value, the global value and
\* the per-function value, is_read_enabled and is_write_enabled are False if
\* any level is False, else True if any level is True, else None; global
\* disabled with the instance enabled is disabled.
C8_ResolutionTruthTable ==
    /\ ReadNow = Resolve(EnvValue, glob.read, ctl.read)
    /\ WriteNow = Resolve(EnvValue, glob.write, ctl.write)
    /\ (glob.read = "False" /\ ctl.read = "True") => ReadNow = "False"
    /\ (glob.write = "False" /\ ctl.write = "True") => WriteNow = "False"

\* C8 witness: global disabled, instance enabled
C8_Witness ==
    /\ glob.read = "False" /\ glob.write = "False"
    /\ ctl.read = "True" /\ ctl.write = "True"
    /\ EnvValue = "None"

\* the innermost open per-function scope and the one around it
Top == ctl_scopes[Len(ctl_scopes)]
Outer == ctl_scopes[Len(ctl_scopes) - 1]
GlobalNotFalse ==
    /\ Global_is_read_enabled(glob, env_enabled, env_disabled) # "False"
    /\ Global_is_write_enabled(glob, env_enabled, env_disabled) # "False"

\* C9: inside nested scopes the controller holds exactly the innermost
\* scope's read/write values; inside disable() then enable() both resolve
\* True, and inside enable(True, False) then enable(False, True) read
\* resolves False and write True (the global level and the environment not
\* being False).
C9_NestedScopesReplace ==
    /\ ctl_scopes # <<>> => (ctl.read = Top.read /\ ctl.write = Top.write)
    /\ (/\ Len(ctl_scopes) >= 2
        /\ Outer.read = "False" /\ Outer.write = "False"
        /\ Top.read = "True" /\ Top.write = "True"
        /\ GlobalNotFalse)
       => (ReadNow = "True" /\ WriteNow = "True")
    /\ (/\ Len(ctl_scopes) >= 2
        /\ Outer.read = "True" /\ Outer.write = "False"
        /\ Top.read = "False" /\ Top.write = "True"
        /\ GlobalNotFalse)
       => (ReadNow = "False" /\ WriteNow = "True")

\* C9 witness: enable(read=False, write=True) nested in
\* enable(read=True, write=False)
C9_Witness ==
    /\ Len(ctl_scopes) = 2
    /\ Outer.read = "True" /\ Outer.write = "False"
    /\ Top.read = "False" /\ Top.write = "True"
    /\ GlobalNotFalse

\* C12: a call made while neither read nor write resolves True, or whose
\* key derivation fails, runs the wrapped function exactly once, returns
\* its output, attempts no cache operation and leaves every entry as it was
C12_ColdPathNoCacheInteraction ==
    [][(IsCallStep /\ ((ReadNow # "True" /\ WriteNow # "True") \/ last'.keyfail))
         => /\ last'.outcome = "return"
            /\ last'.ret = Fn(ArgsOf(last'.a))
            /\ last'.invoked = 1
            /\ last'.ops = {}
            /\ disk' = disk]_vars

\* a call whose key derivation failed, made while read and write resolve
\* True and an entry for its arguments is stored
C12_Witness ==
    /\ last.kind = "call" /\ last.keyfail
    /\ ReadNow = "True" /\ WriteNow = "True"
    /\ Loadable(disk[KeyOf(last.a)])
    /\ last.invoked = 1 /\ last.ops = {}

\* the step is one call of the cacheable function in which the wrapped
\* function was run and raised
IsRaisingStep ==
    last'.kind = "call_raising" /\ last'.invoked = 1 /\ UNCHANGED ctl_vars

\* C13 as stated: when the wrapped function raises, its exception reaches
\* the caller and no entry is written or modified in that call
C13_NoEntryModifiedOnRaise ==
    [][IsRaisingStep =>
         /\ last'.outcome = "raise_fn"
         /\ last'.ops \cap {"dump", "touch"} = {}
         /\ disk' = disk]_vars

\* C13 amended: when the wrapped function raises, its exception reaches the
\* caller, nothing is dumped, and every entry keeps its output files and the
\* output_id in its metadata (the load attempted before the function ran
\* may have rewritten last_accessed)
C13_NoOutputWrittenOnRaise ==
    [][IsRaisingStep =>
         /\ last'.outcome = "raise_fn"
         /\ "dump" \notin last'.ops
         /\ \A k \in InputKeys :
               /\ disk'[k].outs = disk[k].outs
               /\ exists(disk'[k]) = exists(disk[k])
               /\ exists(disk[k]) =>
                     disk'[k].meta[1].output_id = disk[k].meta[1].output_id]_vars

\* the wrapped function raised in a call made with write enabled, after a
\* load of the stored entry that the filter rejected
C13_Witness ==
    /\ last.kind = "call_raising" /\ last.outcome = "raise_fn"
    /\ WriteNow = "True"
    /\ "touch" \in last.ops
    /\ Loadable(disk[KeyOf(last.a)])

\* the state a controller had just before its k-th open scope was opened:
\* the initial state for the outermost scope, else what the enclosing scope
\* installed
InitialCtl == [read |-> "None", write |-> "None", filter |-> "None"]
InitialGlobal == [read |-> "None", write |-> "None"]
CtlBefore(k) ==
    IF k = 1 THEN InitialCtl
    ELSE [read |-> ctl_scopes[k - 1].read, write |-> ctl_scopes[k - 1].write,
          filter |-> ctl_scopes[k - 1].filter]
GlobalBefore(k) ==
    IF k = 1 THEN InitialGlobal
    ELSE [read |-> glob_scopes[k - 1].read, write |-> glob_scopes[k - 1].write]

\* C11: with scopes exited innermost first, the exit of a scope of the
\* per-function or of the global controller (on return or on an exception
\* alike) leaves the controller in the state it had just before that scope
\* was opened, the initial state when the scope was the outermost one.
C11_ScopeRestoration ==
    [][/\ Len(ctl_scopes') < Len(ctl_scopes) => ctl' = CtlBefore(Len(ctl_scopes))
       /\ Len(glob_scopes') < Len(glob_scopes) => glob' = GlobalBefore(Len(glob_scopes))
       /\ ctl_scopes' = <<>> => ctl' = InitialCtl
       /\ glob_scopes' = <<>> => glob' = InitialGlobal]_vars

\* two nested per-function scopes and a global scope are open, the inner
\* scope changed all of read, write and filter, and the outer scope's state
\* is not the initial one: every exit has something to restore
C11_Witness ==
    /\ Len(ctl_scopes) = 2
    /\ glob_scopes # <<>> /\ glob # InitialGlobal
    /\ Top.read # Outer.read /\ Top.write # Outer.write /\ Top.filter # Outer.filter
    /\ Outer.filter # "None"
    /\ Top.previous = CtlBefore(2)


-----------------------------------------------------------------------------
(* Properties of the disk model *)

\* process p is inside the body of a lock-guarded backend method
Inside(p) == job[p].phase = "in"

\* process p holds some entry lock
Holding(p) == \E l \in LockPaths : p \in lock[l]

\* C4: in every state reachable by interleaving read, write and evict on one
\* key, when the entry's metadata.json is present the output file it names
\* is present with the bytes of one write
C4_EntryConsistency ==
    \A k \in DiskKeys :
        exists(disk[k]) =>
            /\ read_output(disk[k], disk[k].meta[1]).ok
            /\ read_output(disk[k], disk[k].meta[1]).bytes \in {BytesOf(p) : p \in Procs}

\* C5: when the concurrent writes of one key have all returned, a read of
\* the key succeeds and returns the bytes of the writer whose write_output
\* ran last
C5_LastWriterWins ==
    (job[1].op = "read" /\ job[1].phase = "done") =>
        /\ job[1].result = "ok"
        /\ last.kind = "write_output"
        /\ job[1].ret = BytesOf(last.a)

\* C6: no two processes are at once inside lock-guarded methods for the same
\* entry; a process inside holds the lock of its entry alone, and two keys
\* have the same lock path exactly when they have the same entry path
C6_PerEntryMutualExclusion ==
    /\ \A p \in Procs : \A q \in Procs \ {p} :
          (Inside(p) /\ Inside(q)) =>
              construct_input_path(job[p].key) # construct_input_path(job[q].key)
    /\ \A p \in Procs : Inside(p) => lock[construct_lock_path(job[p].key)] = {p}
    /\ \A k1 \in InputKeys : \A k2 \in InputKeys :
          (construct_lock_path(k1) = construct_lock_path(k2))
              <=> (construct_input_path(k1) = construct_input_path(k2))

\* one process is inside a lock-guarded method while another waits for the
\* lock of the same entry
C6_Witness ==
    \E p \in Procs : \E q \in Procs \ {p} :
        Inside(p) /\ job[q].phase = "wait" /\ job[q].key = job[p].key

TouchesEntry(p, op) ==
    /\ job'[p] # job[p]
    /\ job[p].op = op
    /\ disk' # disk \/ job[p].phase \in {"in", "unlink"}

\* C22: every step of read() and write() that reads, creates, modifies or
\* deletes the metadata file or an output file of a key, the evict step of
\* write() included, is taken while the process holds that key's entry lock
C22_EntryStepsHoldLock ==
    [][\A p \in Procs :
          (TouchesEntry(p, "read") \/ TouchesEntry(p, "write"))
             => p \in lock[construct_lock_path(job[p].key)]]_vars

\* the step interrupts process p's write() between two of its steps
InterruptedBetweenSteps(p) ==
    /\ job[p].op = "write" /\ job[p].phase \in {"wait", "in"}
    /\ job'[p].phase = "done" /\ job'[p].result = "cancelled"

\* C23: when write(bytes, metadata, key) is interrupted after any of its
\* steps evict, write_output, dump_metadata, update_last_accessed, then
\* either exists(key) is false or the metadata and the complete output file
\* are both there, and a read of the entry returns nothing but those bytes
C23_InterruptedWriteNotVisible ==
    [][\A p \in Procs :
          InterruptedBetweenSteps(p)
             => LET e == disk'[job[p].key] IN
                /\ exists(e)
                     => /\ read_output(e, e.meta[1]).ok
                        /\ read_output(e, e.meta[1]).bytes = job[p].bytes
                /\ Cache_read(disk', job[p].key, "none").ok
                     => Cache_read(disk', job[p].key, "none").bytes = job[p].bytes]_vars

\* a write was interrupted after dump_metadata and before
\* update_last_accessed had rewritten the metadata: the entry exists
C23_Witness ==
    \E p \in Procs :
        /\ Quiet(p)
        /\ job[p].op = "write" /\ job[p].result = "cancelled"
        /\ exists(disk[job[p].key])
        /\ ~disk[job[p].key].meta[1].last_accessed

\* process p is inside a lock-guarded method: it holds the lock of its key
HoldsLock(p) == job[p].phase = "in"

\* C33: operations on different keys never wait on each other: a process
\* about to enter a lock-guarded method on its key can take the lock
\* whenever no other process is inside a lock-guarded method on that same
\* key, whatever locks of other keys are held
C33_DifferentKeysNeverWait ==
    \A p \in Procs :
        (/\ job[p].phase = "wait"
         /\ \A q \in Procs \ {p} : HoldsLock(q) => job[q].key # job[p].key)
            => ENABLED Acquire(p)

\* two processes are inside lock-guarded methods on different keys
C33_Witness ==
    \E p \in Procs, q \in Procs :
        /\ HoldsLock(p) /\ HoldsLock(q)
        /\ job[p].key # job[q].key

\* process p has completed a call of op on key
Completed(p, op, key) ==
    /\ job[p].phase = "done"
    /\ job[p].op = op
    /\ job[p].key = key

\* no process other than p and q has made a call on key
OnlyBetween(p, q, key) ==
    \A o \in Procs \ {p, q} : job[o].phase = "idle" \/ job[o].key # key

\* C34: a read concurrent with a write does not roll the metadata back: once
\* a read and a write of the same key have both completed, the metadata of
\* the entry carries the output_id of the write and names an output file
\* that exists
C34_ReadKeepsNewerMetadata ==
    \A r \in Procs, w \in Procs, key \in InputKeys :
        (/\ r # w
         /\ Completed(r, "read", key)
         /\ Completed(w, "write", key)
         /\ OnlyBetween(r, w, key))
            => /\ exists(disk[key])
               /\ disk[key].meta[1].output_id = get_output_id_from_bytes(BytesOf(w))
               /\ read_output(disk[key], disk[key].meta[1]).ok

\* C35: an in-flight read cannot resurrect an evicted entry: once a read and
\* an evict of the same key have both completed, exists(key) is false and
\* the entry directory holds no metadata file
C35_ReadDoesNotResurrect ==
    \A r \in Procs, e \in Procs, key \in InputKeys :
        (/\ r # e
         /\ Completed(r, "read", key)
         /\ Completed(e, "evict", key)
         /\ OnlyBetween(r, e, key))
            => /\ ~exists(disk[key])
               /\ MetadataFile \notin Files(disk[key])

-----------------------------------------------------------------------------
(* Properties of the backend model *)

\* C14: after write(b, m, key), whatever the key held before, exists(key) is
\* true, and a read(key) that follows at once returns exactly b
C14_BackendRoundTrip ==
    [][/\ last'.kind = "write" => exists(disk'[last'.key])
       /\ (last.kind = "write" /\ last'.kind = "read" /\ last'.key = last.key)
            => (last'.result = "ok" /\ last'.ret = last.bytes)]_vars

\* a read of a written key returned the bytes 2 stored under the shared
\* output id, while another key holds an entry too
C14_Witness ==
    /\ last.kind = "read" /\ last.result = "ok" /\ last.ret = 2
    /\ disk[last.key].meta[1].output_id = SharedOutputId
    /\ \E k \in BackendKeys : k # last.key /\ exists(disk[k])

\* C15: after evict(key), which raises nothing even for an absent key,
\* exists(key) is false, and a read(key) that follows fails with
\* InputKeyNotFoundError
C15_ReadAfterEvictNotFound ==
    [][/\ last'.kind = "evict"
            => (last'.result = "ok" /\ ~exists(disk'[last'.key]))
       /\ (last.kind = "evict" /\ last'.kind = "read" /\ last'.key = last.key)
            => last'.result = "InputKeyNotFoundError"]_vars

\* the function adopted from in the last adopt, the function adopted into,
\* and a key moved to the adopting function
AdoptedFrom == last'.key.function_id
AdoptedTo == CHOOSE f \in BackendFunctionIds : f # AdoptedFrom
Moved(k) == [k EXCEPT !.function_id = AdoptedTo]

\* C16: after adopt(from, to) between different functions, every key listed
\* under from before is listed under to, with the same metadata and with the
\* same bytes returned by read, and nothing is listed under from
C16_AdoptMovesEntries ==
    [][(last'.kind = "adopt" /\ last'.result = "ok" /\ disk' = adopt(disk, AdoptedFrom, AdoptedTo))
         => /\ \A k \in list(disk, AdoptedFrom) :
                 /\ Moved(k) \in list(disk', AdoptedTo)
                 /\ disk'[Moved(k)].meta = disk[k].meta
                 /\ Cache_read(disk', Moved(k), "none").ok
                 /\ Cache_read(disk', Moved(k), "none").bytes
                       = Cache_read(disk, k, "none").bytes
            /\ list(disk', AdoptedFrom) = {}]_vars

\* an adopt moved an entry onto a key of the adopting function, which now
\* holds an output file of its own former entry as well
C16_Witness ==
    /\ last.kind = "adopt" /\ last.result = "ok"
    /\ list(disk, last.key.function_id) = {}
    /\ \E k \in BackendKeys :
          /\ k.function_id # last.key.function_id
          /\ exists(disk[k])
          /\ Cardinality(DOMAIN disk[k].outs) = 2

\* C38: one output file per entry: after any sequence of write, read,
\* evict and adopt made one after the other, every entry that exists holds
\* exactly one output file, the one its metadata names
C38_OneOutputFilePerEntry ==
    \A k \in BackendKeys :
        exists(disk[k]) => DOMAIN disk[k].outs = {disk[k].meta[1].output_id}

-----------------------------------------------------------------------------
(* Properties of the key model *)

\* C17: input_id is a function of exactly the mapping of the non-excluded
\* parameter names to the values bound to them, defaults applied: two calls
\* of the same function have the same input_id if and only if those
\* mappings are equal, however the arguments were passed
C17_KeyIsFunctionOfBoundArguments ==
    (last.kind = "key" /\ last.prev # <<>>)
        => (last.call.input_id = last.prev[1].input_id
               <=> last.call.arguments = last.prev[1].arguments)

\* C18: excluded arguments never influence the key: two calls that differ
\* only in the values of the arguments the exclusion predicate names have
\* the same input_id
C18_ExcludedArgumentsIgnored ==
    (/\ last.kind = "key" /\ last.prev # <<>>
     /\ last.call.bound # last.prev[1].bound
     /\ filter_arguments(last.call.bound) = filter_arguments(last.prev[1].bound))
        => last.call.input_id = last.prev[1].input_id

-----------------------------------------------------------------------------
(* Properties of the by-id model *)

\* the step is one call of the by-id method named
IsByIdStep(kind) == last'.kind = kind /\ UNCHANGED ctl_vars

\* the entry the step's by-id call addresses, before the call
ByIdEntry == disk[get_input_key_from_input_id(last'.input_id)]

\* C19: load_output(input_id) called while read does not resolve to True
\* raises CacheNotEnabledError; dump_output(output, input_id) called while
\* write does not resolve to True raises CacheNotEnabledError and leaves the
\* cache unchanged; CacheNotEnabledError is raised in no other situation
C19_DisabledByIdRaisesCacheNotEnabled ==
    [][/\ (IsByIdStep("load_output") /\ ReadNow # "True")
            => last'.raised = "CacheNotEnabledError"
       /\ (IsByIdStep("dump_output") /\ WriteNow # "True")
            => (last'.raised = "CacheNotEnabledError" /\ disk' = disk)
       /\ (last'.raised = "CacheNotEnabledError" /\ UNCHANGED ctl_vars)
            => \/ last'.kind = "load_output" /\ ReadNow # "True"
               \/ last'.kind = "dump_output" /\ WriteNow # "True"]_vars

\* C20: load_output(input_id), load_metadata(input_id) and
\* get_output_path(input_id) called for an input_id that has no entry raise
\* InputKeyNotFoundError
C20_AbsentByIdRaisesInputKeyNotFound ==
    [][((IsByIdStep("load_output") \/ IsByIdStep("load_metadata")
            \/ IsByIdStep("get_output_path"))
        /\ ByIdEntry = NoEntry)
          => last'.raised = "InputKeyNotFoundError"]_vars

-----------------------------------------------------------------------------
(* Properties of the model of two functions *)

\* the function's own setting is unset
OwnUnset(function_id) ==
    ControllerOf(function_id).read = "None" /\ ControllerOf(function_id).write = "None"

\* the process is inside one enable_all_caches() scope, entered with the
\* global setting and the environment unset
InsideEnableAll ==
    /\ Len(glob_scopes) = 1
    /\ glob_scopes[1].read = "True" /\ glob_scopes[1].write = "True"
    /\ glob_scopes[1].previous = [read |-> "None", write |-> "None"]
    /\ ~env_enabled /\ ~env_disabled

\* the entry of the step's call, in the cache directory d
CalledEntry(d) ==
    d[[function_id |-> last'.function_id,
       input_id |-> get_input_id(ArgsOf(last'.a))]]

\* C21: all controllers consult the one GlobalCacheController: inside an
\* enable_all_caches() scope every function whose own setting is unset
\* resolves read and write to True, its first call computes and stores, a
\* call with the same arguments then loads without recomputing, and once the
\* scope is left those functions resolve to unset again
C21_GlobalSettingIsShared ==
    [][/\ \A f \in BackendFunctionIds :
            /\ (InsideEnableAll /\ OwnUnset(f))
                 => (ReadOf(f) = "True" /\ WriteOf(f) = "True")
            /\ (InsideEnableAll /\ OwnUnset(f) /\ GlobalExit)
                 => (ReadOf(f)' = "None" /\ WriteOf(f)' = "None")
       /\ (/\ InsideEnableAll /\ last'.kind = "call" /\ UNCHANGED ctl_vars
           /\ OwnUnset(last'.function_id)
           /\ (last' # last \/ disk' # disk))
            => IF Loadable(CalledEntry(disk))
               THEN /\ last'.invoked = 0
                    /\ last'.ret = StoredValue(CalledEntry(disk))
               ELSE /\ last'.invoked = 1
                    /\ last'.ret = Fn(ArgsOf(last'.a))
                    /\ Loadable(CalledEntry(disk'))
                    /\ StoredValue(CalledEntry(disk')) = last'.ret]_vars

\* inside enable_all_caches(), bar (never scoped itself) was called twice
\* with the same argument and the second call loaded what the first stored
C21_Witness ==
    /\ InsideEnableAll
    /\ ctl_scopes = <<>>
    /\ last.kind = "call" /\ last.function_id = "bar"
    /\ last.invoked = 0 /\ last.ret = Fn(ArgsOf(last.a))
    /\ "load" \in last.ops

-----------------------------------------------------------------------------
(* Properties of the call model with the failure on record *)

\* the step is one call foo(a, 0) hit by the failure fault
IsNotedCall(fault) == last'.kind = "call" /\ last'.fault = fault /\ UNCHANGED ctl_vars

\* the call whose serializer raised got as far as the dump
FailedDump == IsNotedCall("serialize") /\ "dump" \in last'.ops

\* the two entries hold the same output files and the same metadata, the
\* last_accessed mark apart
SameStored(e1, e2) ==
    /\ e1.dir = e2.dir
    /\ e1.outs = e2.outs
    /\ Len(e1.meta) = Len(e2.meta)
    /\ e1.meta # <<>> => touch(e1.meta[1]) = touch(e2.meta[1])

\* the call foo(a, 0) made next with read enabled
NextReadCall(a) == call("True", WriteNow, ctl, disk', ArgsOf(a), "none")

\* C25 as stated: a dump failing in the serializer leaves every stored entry
\* intact and makes no entry visible, and the next read-enabled call with the
\* same arguments attempts no load and runs the function again
C25_FailedDumpThenNoLoad ==
    [][FailedDump =>
          /\ \A k \in InputKeys : SameStored(disk'[k], disk[k])
          /\ "load" \notin NextReadCall(last'.a).ops
          /\ NextReadCall(last'.a).invoked = 1]_vars

\* C25 amended: a dump failing in the serializer leaves every stored entry
\* intact and makes no entry visible; the next read-enabled call with the
\* same arguments attempts a load exactly when an entry was stored before the
\* failed dump, and with no entry stored it runs the function again
C25_FailedDumpLeavesCacheUnchanged ==
    [][FailedDump =>
          /\ \A k \in InputKeys : SameStored(disk'[k], disk[k])
          /\ "load" \in NextReadCall(last'.a).ops <=> exists(disk[KeyOf(last'.a)])
          /\ ~exists(disk[KeyOf(last'.a)]) => NextReadCall(last'.a).invoked = 1]_vars

\* a dump has failed in the serializer with read enabled and no entry stored
C25_Witness ==
    /\ last.kind = "call" /\ last.fault = "serialize" /\ "dump" \in last.ops
    /\ last.read = "True"
    /\ last.outcome = "return" /\ last.invoked = 1
    /\ ~exists(disk[KeyOf(last.a)])

\* the step is one call foo(a, 0), with or without a failure
IsAnyNotedCall == last'.kind = "call" /\ UNCHANGED ctl_vars

\* C26: reading and writing are gated independently.  A call attempts a load
\* only when read resolves True and a dump only when write resolves True.
\* With read True and write False a miss runs the function and creates no
\* entry: every entry and its bytes are unchanged.  With read False and write
\* True every call runs the function without looking into the cache, and
\* when nothing fails the entry then holds the fresh output.
C26_ReadAndWriteGatedIndependently ==
    [][IsAnyNotedCall =>
          LET key == KeyOf(last'.a) IN
          /\ "load" \in last'.ops \/ "exists" \in last'.ops => last'.read = "True"
          /\ "dump" \in last'.ops => last'.write = "True"
          /\ (/\ last'.read = "True" /\ last'.write = "False"
              /\ last'.fault # "exists" /\ ~exists(disk[key]))
                => /\ last'.invoked = 1 /\ last'.ret = Fn(ArgsOf(last'.a))
                   /\ disk' = disk
          /\ (last'.read = "False" /\ last'.write = "True")
                => /\ last'.invoked = 1 /\ last'.ret = Fn(ArgsOf(last'.a))
                   /\ "load" \notin last'.ops /\ "exists" \notin last'.ops
                   /\ last'.fault # "key" => "dump" \in last'.ops
                   /\ last'.fault = "none" =>
                         /\ Loadable(disk'[key])
                         /\ StoredValue(disk'[key]) = Fn(ArgsOf(last'.a))]_vars

\* a read-only call has missed, run the function and stored nothing
C26_Witness ==
    /\ last.kind = "call" /\ last.fault = "none"
    /\ last.read = "True" /\ last.write = "False"
    /\ last.ops = {"exists"} /\ last.invoked = 1
    /\ ~exists(disk[KeyOf(last.a)])
    /\ \E k \in InputKeys : exists(disk[k])

\* the failures that make the load of a stored entry raise, and those that
\* make the dump of the fresh output raise
LoadFaults == {"load_metadata", "dump_metadata", "read_output", "deserialize"}
DumpFaults == {"serialize", "write_output", "dump_metadata"}

\* the call recorded in last' found an entry with read enabled, and its load
\* raised or the filter of the scope rejected the loaded value
LoadFailedOrRejected ==
    /\ IsAnyNotedCall
    /\ last'.read = "True"
    /\ exists(disk[KeyOf(last'.a)])
    /\ \/ last'.fault \in LoadFaults
       \/ /\ last'.fault \in {"none", "serialize", "write_output"}
          /\ Loadable(disk[KeyOf(last'.a)])
          /\ ctl.filter = "reject"

\* C27: a rejected or failed load is a miss: the call runs the wrapped
\* function exactly once and returns its fresh output, and when write is
\* enabled (and the dump does not fail too) the stored entry is replaced by
\* that output
C27_FailedLoadIsMiss ==
    [][LoadFailedOrRejected =>
          LET key == KeyOf(last'.a) IN
          /\ "load" \in last'.ops
          /\ last'.outcome = "return"
          /\ last'.invoked = 1
          /\ last'.ret = Fn(ArgsOf(last'.a))
          /\ last'.write = "True" <=> "dump" \in last'.ops
          /\ (last'.write = "True" /\ last'.fault \notin DumpFaults)
                => /\ Loadable(disk'[key])
                   /\ StoredValue(disk'[key]) = Fn(ArgsOf(last'.a))
          /\ last'.write # "True" => SameStored(disk'[key], disk[key])]_vars

\* a stored value was rejected by the filter and the entry written again
C27_Witness ==
    /\ last.kind = "call" /\ last.fault = "none"
    /\ last.read = "True" /\ last.write = "True"
    /\ ctl.filter = "reject"
    /\ last.ops = {"exists", "load", "dump"} /\ last.invoked = 1
    /\ Loadable(disk[KeyOf(last.a)])

-----------------------------------------------------------------------------
(* Properties of the staged write *)

\* the destination holds all the files staged for one output
CompleteDestination(d) ==
    /\ d.dir
    /\ \E output \in StagedOutputs : d.files = serializer_dump(output, "files")

\* C24: the staged write replaces the destination atomically: at every
\* instant, also when the process is killed during the replacement, the
\* destination path either does not exist or holds the complete set of
\* files of one output (the previous one or the new one)
C24_StagedReplaceIsAtomic ==
    /\ ~disk.dir \/ CompleteDestination(disk)
    /\ job.phase # "idle" =>
          \/ disk = job.previous
          \/ disk = [dir |-> TRUE, files |-> serializer_dump(job.output, "files")]

-----------------------------------------------------------------------------
(* Properties of the first core.py *)

\* the scopes entered and not left that cover instance f
CoveringScopes(f) == {i \in 1 .. Len(ctl_scopes) : f \in ctl_scopes[i].who}

IsLegacyCall == last'.kind = "call" /\ UNCHANGED ctl_vars

\* C28: nested scopes of the first enable_cache resolve to the most
\* restrictive setting.  A call loads only when every scope around it asked
\* for read, and writes only when every scope around it asked for write; so
\* when one scope around the call refused read and one refused write
\* (disable_cache() around or inside enable_cache(), enable_cache(read=True,
\* write=False) around enable_cache(read=False, write=True), the module's
\* disable_cache() around an instance's enable_cache()), the call neither
\* loads nor writes and runs the wrapped function.
C28_NestedScopesMostRestrictive ==
    [][IsLegacyCall =>
          LET S == CoveringScopes(last'.f) IN
          /\ "load" \in last'.ops =>
                S # {} /\ \A i \in S : ctl_scopes[i].read = "True"
          /\ "dump" \in last'.ops =>
                S # {} /\ \A i \in S : ctl_scopes[i].write = "True"
          /\ (/\ \E i \in S : ctl_scopes[i].read = "False"
              /\ \E i \in S : ctl_scopes[i].write = "False")
                => /\ last'.ops = {}
                   /\ last'.invoked = 1
                   /\ last'.ret = Fn(ArgsOf(last'.a))
                   /\ disk' = disk]_vars

\* foo was called on a stored result inside enable_cache(read=True,
\* write=False) and a nested enable_cache(read=False, write=True)
C28_Witness ==
    /\ Len(ctl_scopes) = 2
    /\ ctl_scopes[1].who = {"foo"}
    /\ ctl_scopes[1].read = "True" /\ ctl_scopes[1].write = "False"
    /\ ctl_scopes[2].who = {"foo"}
    /\ ctl_scopes[2].read = "False" /\ ctl_scopes[2].write = "True"
    /\ ~env_disabled
    /\ last.kind = "call" /\ last.f = "foo"
    /\ last.ops = {} /\ last.invoked = 1
    /\ disk["foo"][last.a] # 0

-----------------------------------------------------------------------------
(* Properties of the call made while another thread changes the scopes *)

\* C29: enablement is resolved once per call: whether the call loads and
\* whether it writes follows from the flags read at its start, whatever
\* scopes another thread enters or leaves meanwhile.  A call that read
\* read = True and finds an entry loads it, and a call that read write = True
\* and ran the function dumps the output.
C29_EnablementResolvedOncePerCall ==
    [][/\ (job.phase = "read" /\ job'.phase # "read" /\ exists(disk[JobKey]))
            => "load" \in job'.ops
       /\ (job.phase = "write" /\ job'.phase = "done")
            => "dump" \in job'.ops]_vars

-----------------------------------------------------------------------------
(* Properties of the scope objects *)

\* C30: the new state is installed when the scope is entered, not before.
\* A step that only makes a scope object (enable(), disable(), enable_cache(),
\* disable_cache() or enable_all_caches() is called and the object is not
\* entered) leaves read, write and filter as they were, and leaving a scope
\* restores the state that was in force at the moment it was entered.
C30_StateInstalledOnEntry ==
    [][/\ Len(ctl_scopes') > Len(ctl_scopes) => ctl' = ctl
       /\ Len(glob_scopes') > Len(glob_scopes) => glob' = glob
       /\ \A i \in ScopeIds :
             /\ (Innermost(ctl_scopes, i) /\ ctl_scopes' = Without(ctl_scopes, i))
                   => ctl' = ctl_scopes[i].at_entry
             /\ (Innermost(glob_scopes, i) /\ glob_scopes' = Without(glob_scopes, i))
                   => glob' = glob_scopes[i].at_entry]_vars

-----------------------------------------------------------------------------
(* Properties of the two variants side by side *)

\* C31: the asynchronous orchestrator follows the per-call state machine of
\* the synchronous one: called with the same arguments under the same
\* scopes, both variants run the wrapped function the same number of times,
\* return the same value and leave the same entries in their caches
C31_AsyncFollowsSync ==
    [][(last'.kind = "call" /\ UNCHANGED ctl_vars) =>
          /\ last'.async.invoked = last'.sync.invoked
          /\ last'.async.ret = last'.sync.ret
          /\ \A k \in InputKeys : exists(disk'["async"][k]) = exists(disk'["sync"][k])]_vars

-----------------------------------------------------------------------------
(* Properties of the public methods of the disk cache *)

\* C32: every successful read(key) records a last-accessed timestamp in the
\* metadata of the entry (get_last_accessed(key) is not None afterwards) and
\* leaves the other metadata fields, the stored output files and every other
\* entry unchanged; get_last_accessed returns None exactly for an entry
\* whose metadata has no such field
C32_ReadRecordsLastAccessed ==
    [][/\ (last'.kind = "read" /\ last'.result = "ok") =>
             LET k == last'.key IN
             /\ get_last_accessed(disk'[k]).ret = "timestamp"
             /\ disk'[k].meta[1].input_id = disk[k].meta[1].input_id
             /\ disk'[k].meta[1].output_id = disk[k].meta[1].output_id
             /\ disk'[k].outs = disk[k].outs
             /\ last'.ret = disk[k].outs[disk[k].meta[1].output_id]
             /\ \A other \in InputKeys \ {k} : disk'[other] = disk[other]
       /\ (last'.kind = "get_last_accessed" /\ last'.result = "ok") =>
             /\ disk' = disk
             /\ last'.ret = "None" <=> ~disk[last'.key].meta[1].last_accessed]_vars

\* a read has succeeded and the entry it read carries a timestamp
C32_Witness ==
    /\ last.kind = "read" /\ last.result = "ok"
    /\ last.ret \in BackendBytes
    /\ get_last_accessed(disk[last.key]).ret = "timestamp"

-----------------------------------------------------------------------------
(* Properties of the call racing with an evict *)

\* C36: a call racing with the removal of its entry degrades to a miss: when
\* __call__ found the entry and an evict of it completed before the load
\* ended, the call runs the function once, returns its output and raises
\* nothing
C36_RacingCallIsAMiss ==
    (last.phase = "done" /\ last.found /\ last.evicted)
        => /\ last.outcome = "return"
           /\ last.invoked = 1
           /\ last.ret = Fn(CallArgs(last.a))

\* such a call has returned
C36_Witness ==
    /\ last.phase = "done"
    /\ last.found
    /\ last.evicted
    /\ last.invoked = 1

-----------------------------------------------------------------------------
(* Properties of the scopes opened by several threads *)

\* C37: overlapping scopes of two threads restore the initial state: once
\* every with block opened on the controller has ended, in whatever order,
\* the read, write and filter state of the controller is the state found
\* before the first of them was opened
C37_OverlappingScopesRestore ==
    (AllOut /\ last.kind = "baseline") => ctl = last.state

\* C39: exists implies loadable metadata in both disk backends: in every
\* state reached through write, write_output, dump_metadata, read, evict and
\* clear, exists(key) of DiskCache and of AsyncDiskCache is true only if
\* metadata.json is there to load, so that the two agree on which entries
\* exist
C39_ExistsImpliesMetadata ==
    \A k \in InputKeys :
        /\ exists(disk[k]) => load_metadata(disk[k]).ok
        /\ async_exists(disk[k]) => load_metadata(disk[k]).ok
        /\ async_exists(disk[k]) = exists(disk[k])

\* C40: a failed backend write does not destroy the previous entry: when
\* write(bytes, metadata, key) fails in write_output or in dump_metadata on
\* a key whose entry could be read, the entry can still be read afterwards
\* and read(key) returns the bytes it returned before
C40_FailedWriteKeepsEntry ==
    [][(/\ last'.kind = "write"
        /\ last'.result # "ok"
        /\ Cache_read(disk, last'.key, "none").ok)
          => /\ exists(disk'[last'.key])
             /\ Cache_read(disk', last'.key, "none").ok
             /\ Cache_read(disk', last'.key, "none").bytes
                   = Cache_read(disk, last'.key, "none").bytes]_vars

====
